---------------------------- MODULE Spec2Model ----------------------------
(***************************************************************************)
(* Model of the 2024 grid/geometry library (geometry.rs), of the flood     *)
(* fill and the fence pricing built on it (puzzle12.rs) and of the         *)
(* weighted shortest path through a maze (puzzle16.rs).                    *)
(*                                                                         *)
(* The library is a set of pure functions.  Specification Spec applies     *)
(* them to inputs drawn from bounded sets and records each call in         *)
(* (op, args, out).  Specification SpecFlood runs flood() over every small *)
(* rectangular letter grid, one iteration of its raster scan per step.     *)
(* SpecEdges follows the flood by count_edges on one area, one address of  *)
(* its outer loop per step.  SpecPricing is run() of puzzle12 on small     *)
(* grids and on the example of the puzzle text.  SpecMaze is run() of      *)
(* puzzle16: explore() one pop and one neighbour per step, then the cost   *)
(* and the painted grid.                                                   *)
(*                                                                         *)
(* The later sections model single puzzles, each with variables of its     *)
(* own and a specification that leaves all other variables idle:           *)
(* SpecTrail (puzzle10, the trail search), SpecPatrol and SpecAdvance      *)
(* (puzzle06, the guard's patrol with and without the cap on its steps),   *)
(* SpecVm (puzzle17, the machine and reverse_engineer), SpecAlmanac (2023  *)
(* puzzle05, merge of two mapping steps), SpecWarehouse (puzzle15, the     *)
(* robot pushing boxes), SpecBytes (puzzle18, the falling bytes),          *)
(* SpecFixOrder (puzzle05, fix_order) and SpecDisk (puzzle09, defrag).     *)
(***************************************************************************)
EXTENDS Integers, Sequences, FiniteSets, Bags, TLC

VARIABLES
    op,       \* the library operation last applied ("none" before the first)
    args,     \* its inputs
    out,      \* its result
    tiles,    \* puzzle12: the Grid<Tile> handed to flood(), as rows of tiles
    areas,    \* puzzle12: flood()'s HashMap<AreaId, Area>, as a function
    next_id,  \* puzzle12: flood()'s id counter
    scan,     \* puzzle12: how many addresses the raster scan has passed
    fstate,   \* puzzle12: "idle" | "scanning" | "done"
    area,     \* puzzle12: the id of the Area run() is pricing, None outside the loop
    pending,  \* puzzle12: the addresses count_edges' outer loop has yet to visit
    seen,     \* puzzle12: count_edges' set of (address, cardinal) pairs
    edge_counts,  \* puzzle12: count_edges' counter
    estate,   \* puzzle12: "idle" | "counting" | "counted" | "priced"
    priced,   \* puzzle12: the ids of the Areas run()'s pricing loop is done with
    part1_total,  \* puzzle12: run()'s sum of size * fence_count
    part2_total,  \* puzzle12: run()'s sum of size * edge_count
    maze,         \* puzzle16: the Grid<MazeTile>, as rows of "Wall" | "Open"
    maze_meta,    \* puzzle16: MazeMetadata, [start_address, end_address]
    to_search,    \* puzzle16: explore()'s BinaryHeap<PathCandidate>, as a bag
    path_data,    \* puzzle16: explore()'s HashMap<MazePosition, PathData>
    visited,      \* puzzle16: explore()'s HashSet<MazePosition>
    cur,          \* puzzle16: the PathCandidate the loop body is working on, or None
    adj,          \* puzzle16: what is left of pos.get_adjacent() in the inner loop
    mstate,       \* puzzle16: "idle" | "exploring" | "explored" | "solved"
    solution,      \* puzzle16: run()'s grid2, cost and num_spots, or None
    trail_input,  \* puzzle10: the Grid<u8> of heights run() parsed
    trail_map,  \* puzzle10: score()'s Grid<TrailTile>
    trail_scan,  \* puzzle10: how many addresses score()'s raster scan has passed
    total_score,  \* puzzle10: score()'s total_score
    scores,  \* puzzle10: what the calls of score() returned so far, each [score, grid]
    tstate,  \* puzzle10: "idle" | "scoring" | "done"
    patrol_grid,  \* puzzle06: patrol_state.grid, a Grid<TileState>
    guard,  \* puzzle06: patrol_state.guard, an Option<Guard>
    corners,  \* puzzle06: patrol_state.corners, the HashSet<Guard>
    detected_loop,  \* puzzle06: patrol_state.detected_loop
    num_steps,  \* puzzle06: run_patrol()'s num_steps
    patrol_result,  \* puzzle06: the PatrolResult run_patrol() returned, if it has
    pstate,  \* puzzle06: "idle" | "patrolling" | "returned" | "panicked"
    trodden,  \* puzzle06 (history): the positions the guard moved from or into
    blocked_at,  \* puzzle06 (history): the guards that found the tile ahead not traversable
    raw_program,  \* puzzle17: the Vec<u64> of opcodes and operands parse_input read
    vm_input,  \* puzzle17: the Machine parse_input read
    vm_build,  \* puzzle17: the build profile, "debug" or "release"
    machine,  \* puzzle17: run_full()'s machine
    pointer,  \* puzzle17: run_full()'s pointer
    vm_out,  \* puzzle17: run_full()'s out
    part1_out,  \* puzzle17: the output of the part 1 run
    seed_a,  \* puzzle17: what reverse_engineer returned, an Option<u64>
    vstate,  \* puzzle17: "idle" | "part1" | "verify" | "done" | "failed" | "panicked"
    alm_maps,  \* 2023 puzzle05: the Vec<Mappings> parse_maps returned, each its Vec<Mapping>
    final_merged,  \* 2023 puzzle05: final_merged, the mappings of the merged Mappings, if computed
    alm_seed,  \* 2023 puzzle05: the seed given to final_merged.translate, if any
    alm_output,  \* 2023 puzzle05: what final_merged.translate returned for it, if called
    astate,  \* 2023 puzzle05: "idle" | "parsed" | "merged" | "translated"
    wh_input,  \* puzzle15: the grid run_simulation() was called with
    wh_grid,  \* puzzle15: run_simulation()'s grid
    robot_pos,  \* puzzle15: run_simulation()'s robot_pos
    wh_moves,  \* puzzle15: how many instructions run_simulation() has processed
    wh_direction,  \* puzzle15: the instruction processed last, if any
    wstate,  \* puzzle15: "idle" | "running" | "done" | "panicked"
    fallen_bytes,  \* puzzle18: fallen_bytes, the HashSet<GridAddress>
    found_path,  \* puzzle18: the Vec<GridAddress> of the last find_path that found one
    current_path,  \* puzzle18: current_path, an Option of the rendered path and its cost
    next_obstacle,  \* puzzle18: the byte of the loop pass made last, if any
    bytes_taken,  \* puzzle18: how many bytes of second_batch the loop has taken
    bstate,  \* puzzle18: "idle" | "part1" | "falling" | "blocked" | "done" | "failed"
    by_start,  \* puzzle05: OrderingRules.by_start, prefix to the set of its suffixes
    fix_update,  \* puzzle05: the update handed to fix_order
    fixed_pages,  \* puzzle05: fixed_pages of fix_order
    fix_i,  \* puzzle05: i of the outer loop of fix_order, from 1
    fix_j,  \* puzzle05: the index in fixed_pages of the suffix the inner loop is at
    did_swap,  \* puzzle05: did_swap of fix_order
    reclassified,  \* puzzle05: classify of the update fix_order returned, if it has
    fix_pc,  \* puzzle05: "idle" | "for_i" | "while" | "for_suffix" | "returned"
    disk_input,  \* puzzle09: the digits of the input file
    formatted,  \* puzzle09: Filesystem.formatted
    unformatted,  \* puzzle09: Filesystem.unformatted
    gap_left,  \* puzzle09: the gap handed to the fill_gap call that is next
    dstate  \* puzzle09: "idle" | "defrag" | "fill_gap" | "done"

libVars == <<op, args, out>>
floodVars == <<tiles, areas, next_id, scan, fstate>>
priceVars ==
    <<area, pending, seen, edge_counts, estate, priced, part1_total, part2_total>>
mazeVars ==
    <<maze, maze_meta, to_search, path_data, visited, cur, adj, mstate, solution>>
trailVars == <<trail_input, trail_map, trail_scan, total_score, scores, tstate>>
patrolVars == <<patrol_grid, guard, corners, detected_loop, num_steps, patrol_result, pstate, trodden, blocked_at>>
vmVars == <<raw_program, vm_input, vm_build, machine, pointer, vm_out, part1_out, seed_a, vstate>>
almanacVars == <<alm_maps, final_merged, alm_seed, alm_output, astate>>
warehouseVars == <<wh_input, wh_grid, robot_pos, wh_moves, wh_direction, wstate>>
bytesVars == <<fallen_bytes, found_path, current_path, next_obstacle, bytes_taken, bstate>>
fixorderVars == <<by_start, fix_update, fixed_pages, fix_i, fix_j, did_swap, reclassified, fix_pc>>
diskVars == <<disk_input, formatted, unformatted, gap_left, dstate>>
restVars == <<trailVars, patrolVars, vmVars, almanacVars, warehouseVars, bytesVars, fixorderVars, diskVars>>
nonTrailVars ==
    <<libVars, floodVars, priceVars, mazeVars, patrolVars, vmVars, almanacVars, warehouseVars, bytesVars, fixorderVars, diskVars>>
nonPatrolVars ==
    <<libVars, floodVars, priceVars, mazeVars, trailVars, vmVars, almanacVars, warehouseVars, bytesVars, fixorderVars, diskVars>>
nonVmVars ==
    <<libVars, floodVars, priceVars, mazeVars, trailVars, patrolVars, almanacVars, warehouseVars, bytesVars, fixorderVars, diskVars>>
nonAlmanacVars ==
    <<libVars, floodVars, priceVars, mazeVars, trailVars, patrolVars, vmVars, warehouseVars, bytesVars, fixorderVars, diskVars>>
nonWarehouseVars ==
    <<libVars, floodVars, priceVars, mazeVars, trailVars, patrolVars, vmVars, almanacVars, bytesVars, fixorderVars, diskVars>>
nonBytesVars ==
    <<libVars, floodVars, priceVars, mazeVars, trailVars, patrolVars, vmVars, almanacVars, warehouseVars, fixorderVars, diskVars>>
nonFixorderVars ==
    <<libVars, floodVars, priceVars, mazeVars, trailVars, patrolVars, vmVars, almanacVars, warehouseVars, bytesVars, diskVars>>
nonDiskVars ==
    <<libVars, floodVars, priceVars, mazeVars, trailVars, patrolVars, vmVars, almanacVars, warehouseVars, bytesVars, fixorderVars>>
nonLibVars == <<floodVars, priceVars, mazeVars, restVars>>
nonFloodVars == <<libVars, priceVars, mazeVars, restVars>>
nonMazeVars == <<libVars, floodVars, priceVars, restVars>>
vars == <<libVars, floodVars, priceVars, mazeVars, restVars>>

-----------------------------------------------------------------------------
(* Bounds *)

\* width in bits of usize and isize in the model (64 on the real target)
WordBits == 3
\* longest sequence of turns applied to one heading
MaxTurns == 4
\* largest row count and row length of the grids handed to get / new_default
MaxGridH == 2
MaxGridW == 2
\* largest number of tiles (width * height) of a grid handed to flood()
MaxCells == 9

\* the most rows, and the most columns, of a grid count_edges is run on
MaxSide == 3

\* the most tiles (width * height) of a grid run() prices, the fixture apart
MaxPriceCells == 4

\* the most tiles (width * height) of a maze, the fixtures apart
MaxMazeCells == 4

\* width in bits of the u32 costs of puzzle16 in the model (32 in the code)
CostBits == 16

\* the most tiles (width * height) of a height grid, the fixtures apart
MaxTrailCells == 2

-----------------------------------------------------------------------------
(* Machine integers *)

Pow2(n) == 2 ^ n
UMax == Pow2(WordBits) - 1
IMax == Pow2(WordBits - 1) - 1
IMin == -Pow2(WordBits - 1)
Usize == 0 .. UMax
Isize == IMin .. IMax

\* Option<T>: the empty tuple is None, a one-element tuple is Some(v)
None == <<>>
Some(v) == <<v>>
IsSome(o) == o # <<>>

\* a value or a panic; a panic carries no value
Ok(v) == [kind |-> "ok", val |-> <<v>>]
Panic == [kind |-> "panic", val |-> <<>>]
IsOk(r) == r.kind = "ok"
Val(r) == r.val[1]

\* the build profiles: integer overflow panics in debug and wraps in release
Builds == {"debug", "release"}

\* usize::checked_add_signed: None when the sum is not a usize
checked_add_signed(x, d) ==
    IF x + d < 0 \/ x + d > UMax THEN None ELSE Some(x + d)

\* usize::abs_diff
abs_diff(a, b) == IF a > b THEN a - b ELSE b - a

\* `u as isize`: the two's complement reinterpretation of a usize
as_isize(u) == IF u > IMax THEN u - Pow2(WordBits) ELSE u

\* unary minus on isize: -isize::MIN overflows
neg_isize(i, build) ==
    IF i = IMin
    THEN IF build = "debug" THEN Panic ELSE Ok(IMin)
    ELSE Ok(-i)

-----------------------------------------------------------------------------
(* Cardinal *)

Cardinal == {"North", "East", "South", "West"}

turn_right_swapped(c) ==
    CASE c = "North" -> "East"
      [] c = "East" -> "North"
      [] c = "South" -> "West"
      [] c = "West" -> "South"

turn_right(c) ==
    CASE c = "North" -> "East"
      [] c = "East" -> "South"
      [] c = "South" -> "West"
      [] c = "West" -> "North"

turn_left(c) ==
    CASE c = "North" -> "West"
      [] c = "West" -> "South"
      [] c = "South" -> "East"
      [] c = "East" -> "North"

opposite_as_right(c) == turn_right(c)

opposite(c) ==
    CASE c = "North" -> "South"
      [] c = "East" -> "West"
      [] c = "South" -> "North"
      [] c = "West" -> "East"

ALL == <<"North", "East", "South", "West">>

into_isize_y_up(c) ==
    CASE c = "North" -> <<0, 1>>
      [] c = "East" -> <<1, 0>>
      [] c = "South" -> <<0, -1>>
      [] c = "West" -> <<-1, 0>>

\* impl Into<(isize, isize)> for Cardinal
into_isize(c) ==
    CASE c = "North" -> <<0, -1>>
      [] c = "East" -> <<1, 0>>
      [] c = "South" -> <<0, 1>>
      [] c = "West" -> <<-1, 0>>

\* impl Into<GridDelta> for Cardinal: GridDelta(dx, dy) of the isize pair
into_GridDelta(c) ==
    LET d == into_isize(c) IN <<d[1], d[2]>>

\* impl Into<(i32, i32)> for Cardinal
into_i32(c) ==
    CASE c = "North" -> <<0, -1>>
      [] c = "East" -> <<1, 0>>
      [] c = "South" -> <<0, 1>>
      [] c = "West" -> <<-1, 0>>

-----------------------------------------------------------------------------
(* CardinalSet *)

CardinalSet == [north : BOOLEAN, east : BOOLEAN, south : BOOLEAN, west : BOOLEAN]

CardinalSet_default ==
    [north |-> FALSE, east |-> FALSE, south |-> FALSE, west |-> FALSE]

as_bits_north16(s) ==
    (IF s.north THEN 16 ELSE 0) + (IF s.east THEN 4 ELSE 0)
    + (IF s.south THEN 2 ELSE 0) + (IF s.west THEN 1 ELSE 0)

as_bits(s) ==
    (IF s.north THEN 8 ELSE 0) + (IF s.east THEN 4 ELSE 0)
    + (IF s.south THEN 2 ELSE 0) + (IF s.west THEN 1 ELSE 0)

\* is_empty(): no cardinal is in the set
is_empty(s) == ~(s.north \/ s.east \/ s.south \/ s.west)

len(s) ==
    (IF s.north THEN 1 ELSE 0) + (IF s.east THEN 1 ELSE 0)
    + (IF s.south THEN 1 ELSE 0) + (IF s.west THEN 1 ELSE 0)

contains(s, c) ==
    CASE c = "North" -> s.north
      [] c = "East" -> s.east
      [] c = "South" -> s.south
      [] c = "West" -> s.west

\* impl AddAssign<Cardinal> for CardinalSet, as the value left in self
add_assign(s, c) ==
    CASE c = "North" -> [s EXCEPT !.north = TRUE]
      [] c = "East" -> [s EXCEPT !.east = TRUE]
      [] c = "South" -> [s EXCEPT !.south = TRUE]
      [] c = "West" -> [s EXCEPT !.west = TRUE]

\* the glyphs are modelled by their Unicode code points
to_box_drawing_char(s) ==
    LET bits == as_bits(s) IN
    CASE bits = 15 -> 9532
      [] bits = 14 -> 9500
      [] bits = 13 -> 9524
      [] bits = 11 -> 9508
      [] bits = 7 -> 9516
      [] bits = 12 -> 9492
      [] bits = 6 -> 9484
      [] bits = 3 -> 9488
      [] bits = 9 -> 9496
      [] bits = 10 -> 9474
      [] bits = 5 -> 9472
      [] bits = 8 -> 9589
      [] bits = 4 -> 9590
      [] bits = 2 -> 9591
      [] bits = 1 -> 9588
      [] bits = 0 -> 32
      [] OTHER -> 63

-----------------------------------------------------------------------------
(* GridDelta and GridAddress: <<dx, dy>> and <<x, y>> *)

GridDelta == Isize \X Isize
GridAddress == Usize \X Usize

UP == <<0, -1>>
DOWN == <<0, 1>>
LEFT == <<-1, 0>>
RIGHT == <<1, 0>>
CARDINALS == <<UP, RIGHT, DOWN, LEFT>>

inverted(d, build) ==
    LET ix == neg_isize(d[1], build)
        iy == neg_isize(d[2], build)
    IN  IF IsOk(ix) /\ IsOk(iy) THEN Ok(<<Val(ix), Val(iy)>>) ELSE Panic

vector_between_unsigned(start, end, build) ==
    Ok(<<as_isize(abs_diff(end[1], start[1])), as_isize(abs_diff(end[2], start[2]))>>)

vector_between(start, end, build) ==
    LET ax == start[1]
        ay == start[2]
        bx == end[1]
        by == end[2]
        dx_abs == abs_diff(bx, ax)
        dy_abs == abs_diff(by, ay)
        dx == IF bx > ax THEN Ok(as_isize(dx_abs))
                         ELSE neg_isize(as_isize(dx_abs), build)
        dy == IF by > ay THEN Ok(as_isize(dy_abs))
                         ELSE neg_isize(as_isize(dy_abs), build)
    IN  IF IsOk(dx) /\ IsOk(dy) THEN Ok(<<Val(dx), Val(dy)>>) ELSE Panic

checked_add_saturating(addr, delta) ==
    LET sat(v) == IF v < 0 THEN 0 ELSE IF v > UMax THEN UMax ELSE v
    IN  Some(<<sat(addr[1] + delta[1]), sat(addr[2] + delta[2])>>)

checked_add(addr, delta) ==
    LET x == checked_add_signed(addr[1], delta[1])
        y == checked_add_signed(addr[2], delta[2])
    IN  IF x = None THEN None
        ELSE IF y = None THEN None
        ELSE Some(<<x[1], y[1]>>)

-----------------------------------------------------------------------------
(* Grid<Tile>: rows is a sequence of rows, each a sequence of tiles.  Rows  *)
(* and columns are numbered from 0 in the code and from 1 in a sequence.    *)

\* Tile::default() of the counting grids built by new_default
TileDefault == 0
LibTile == {0, 1}

new_default_transposed(width, height) ==
    [y \in 1 .. width |-> [x \in 1 .. height |-> TileDefault]]

new_default(width, height) ==
    [y \in 1 .. height |-> [x \in 1 .. width |-> TileDefault]]

get_swapped(g, x, y) ==
    IF x < Len(g)
    THEN IF y < Len(g[x + 1]) THEN Some(g[x + 1][y + 1]) ELSE None
    ELSE None

\* Vec::get twice: the row, then the tile in it
get(g, x, y) ==
    IF y < Len(g)
    THEN IF x < Len(g[y + 1]) THEN Some(g[y + 1][x + 1]) ELSE None
    ELSE None

get_mut(g, x, y) ==
    IF y < Len(g)
    THEN IF x < Len(g[y + 1]) THEN Some(g[y + 1][x + 1]) ELSE None
    ELSE None

get_at(g, addr) == get(g, addr[1], addr[2])

get_mut_at(g, addr) == get_mut(g, addr[1], addr[2])

width(g) == IF Len(g) > 0 THEN Len(g[1]) ELSE 0

height(g) == Len(g)

\* impl Index<GridAddress>: the tile, or a panic when get_at is None
index(g, addr) ==
    LET t == get_at(g, addr) IN IF IsSome(t) THEN Ok(t[1]) ELSE Panic

\* impl IndexMut<GridAddress>
index_mut(g, addr) ==
    LET t == get_mut(g, addr[1], addr[2]) IN IF IsSome(t) THEN Ok(t[1]) ELSE Panic

\* every row as long as the first
IsRectangular(g) == \A y \in 1 .. Len(g) : Len(g[y]) = Len(g[1])

-----------------------------------------------------------------------------
(* The library calls of Spec *)

\* the grids handed to the accessors: any rows, equal in length or not
LibRows == UNION {[1 .. w -> LibTile] : w \in 0 .. MaxGridW}
LibGrids == UNION {[1 .. h -> LibRows] : h \in 0 .. MaxGridH}

FloodIdle ==
    /\ tiles = <<>>
    /\ areas = <<>>
    /\ next_id = 0
    /\ scan = 0
    /\ fstate = "idle"

PriceIdle ==
    /\ area = <<>>
    /\ pending = {}
    /\ seen = {}
    /\ edge_counts = 0
    /\ estate = "idle"
    /\ priced = {}
    /\ part1_total = 0
    /\ part2_total = 0

MazeIdle ==
    /\ maze = <<>>
    /\ maze_meta = <<>>
    /\ to_search = EmptyBag
    /\ path_data = <<>>
    /\ visited = {}
    /\ cur = <<>>
    /\ adj = <<>>
    /\ mstate = "idle"
    /\ solution = <<>>

TrailIdle ==
    /\ trail_input = <<>>
    /\ trail_map = <<>>
    /\ trail_scan = 0
    /\ total_score = 0
    /\ scores = <<>>
    /\ tstate = "idle"

PatrolIdle ==
    /\ patrol_grid = <<>>
    /\ guard = <<>>
    /\ corners = {}
    /\ detected_loop = FALSE
    /\ num_steps = 0
    /\ patrol_result = <<>>
    /\ pstate = "idle"
    /\ trodden = {}
    /\ blocked_at = {}

VmIdle ==
    /\ raw_program = <<>>
    /\ vm_input = <<>>
    /\ vm_build = "debug"
    /\ machine = <<>>
    /\ pointer = 0
    /\ vm_out = <<>>
    /\ part1_out = <<>>
    /\ seed_a = <<>>
    /\ vstate = "idle"

AlmanacIdle ==
    /\ alm_maps = <<>>
    /\ final_merged = <<>>
    /\ alm_seed = <<>>
    /\ alm_output = <<>>
    /\ astate = "idle"

WarehouseIdle ==
    /\ wh_input = <<>>
    /\ wh_grid = <<>>
    /\ robot_pos = <<0, 0>>
    /\ wh_moves = 0
    /\ wh_direction = <<>>
    /\ wstate = "idle"

BytesIdle ==
    /\ fallen_bytes = {}
    /\ found_path = <<>>
    /\ current_path = <<>>
    /\ next_obstacle = <<>>
    /\ bytes_taken = 0
    /\ bstate = "idle"

FixorderIdle ==
    /\ by_start = <<>>
    /\ fix_update = <<>>
    /\ fixed_pages = <<>>
    /\ fix_i = 0
    /\ fix_j = 0
    /\ did_swap = FALSE
    /\ reclassified = <<>>
    /\ fix_pc = "idle"

DiskIdle ==
    /\ disk_input = <<>>
    /\ formatted = <<>>
    /\ unformatted = <<>>
    /\ gap_left = 0
    /\ dstate = "idle"

RestIdle ==
    /\ TrailIdle
    /\ PatrolIdle
    /\ VmIdle
    /\ AlmanacIdle
    /\ WarehouseIdle
    /\ BytesIdle
    /\ FixorderIdle
    /\ DiskIdle

IdleButTrail ==
    /\ op = "none"
    /\ args = <<>>
    /\ out = <<>>
    /\ FloodIdle
    /\ PriceIdle
    /\ MazeIdle
    /\ PatrolIdle
    /\ VmIdle
    /\ AlmanacIdle
    /\ WarehouseIdle
    /\ BytesIdle
    /\ FixorderIdle
    /\ DiskIdle

IdleButPatrol ==
    /\ op = "none"
    /\ args = <<>>
    /\ out = <<>>
    /\ FloodIdle
    /\ PriceIdle
    /\ MazeIdle
    /\ TrailIdle
    /\ VmIdle
    /\ AlmanacIdle
    /\ WarehouseIdle
    /\ BytesIdle
    /\ FixorderIdle
    /\ DiskIdle

IdleButVm ==
    /\ op = "none"
    /\ args = <<>>
    /\ out = <<>>
    /\ FloodIdle
    /\ PriceIdle
    /\ MazeIdle
    /\ TrailIdle
    /\ PatrolIdle
    /\ AlmanacIdle
    /\ WarehouseIdle
    /\ BytesIdle
    /\ FixorderIdle
    /\ DiskIdle

IdleButAlmanac ==
    /\ op = "none"
    /\ args = <<>>
    /\ out = <<>>
    /\ FloodIdle
    /\ PriceIdle
    /\ MazeIdle
    /\ TrailIdle
    /\ PatrolIdle
    /\ VmIdle
    /\ WarehouseIdle
    /\ BytesIdle
    /\ FixorderIdle
    /\ DiskIdle

IdleButWarehouse ==
    /\ op = "none"
    /\ args = <<>>
    /\ out = <<>>
    /\ FloodIdle
    /\ PriceIdle
    /\ MazeIdle
    /\ TrailIdle
    /\ PatrolIdle
    /\ VmIdle
    /\ AlmanacIdle
    /\ BytesIdle
    /\ FixorderIdle
    /\ DiskIdle

IdleButBytes ==
    /\ op = "none"
    /\ args = <<>>
    /\ out = <<>>
    /\ FloodIdle
    /\ PriceIdle
    /\ MazeIdle
    /\ TrailIdle
    /\ PatrolIdle
    /\ VmIdle
    /\ AlmanacIdle
    /\ WarehouseIdle
    /\ FixorderIdle
    /\ DiskIdle

IdleButFixorder ==
    /\ op = "none"
    /\ args = <<>>
    /\ out = <<>>
    /\ FloodIdle
    /\ PriceIdle
    /\ MazeIdle
    /\ TrailIdle
    /\ PatrolIdle
    /\ VmIdle
    /\ AlmanacIdle
    /\ WarehouseIdle
    /\ BytesIdle
    /\ DiskIdle

IdleButDisk ==
    /\ op = "none"
    /\ args = <<>>
    /\ out = <<>>
    /\ FloodIdle
    /\ PriceIdle
    /\ MazeIdle
    /\ TrailIdle
    /\ PatrolIdle
    /\ VmIdle
    /\ AlmanacIdle
    /\ WarehouseIdle
    /\ BytesIdle
    /\ FixorderIdle

Init ==
    /\ op = "none"
    /\ args = <<>>
    /\ out = <<>>
    /\ FloodIdle
    /\ PriceIdle
    /\ MazeIdle
    /\ RestIdle

CallCheckedAdd ==
    /\ op = "none"
    /\ \E a \in GridAddress, d \in GridDelta :
        /\ op' = "checked_add"
        /\ args' = [addr |-> a, delta |-> d]
        /\ out' = checked_add(a, d)
        /\ UNCHANGED nonLibVars

\* a.checked_add(c.into()) and, when that is Some(b), b.checked_add(c.opposite().into())
CallStepAndBack ==
    /\ op = "none"
    /\ \E a \in GridAddress, c \in Cardinal :
        LET b == checked_add(a, into_GridDelta(c)) IN
        /\ op' = "step_and_back"
        /\ args' = [addr |-> a, cardinal |-> c]
        /\ out' = [there |-> b,
                   back |-> IF IsSome(b)
                            THEN checked_add(b[1], into_GridDelta(opposite(c)))
                            ELSE None]
        /\ UNCHANGED nonLibVars

\* a heading, then the turns applied to it one after the other
StartHeading ==
    /\ op = "none"
    /\ \E c \in Cardinal :
        /\ op' = "heading"
        /\ args' = [start |-> c, turns |-> <<>>]
        /\ out' = c
        /\ UNCHANGED nonLibVars

CanTurn == op = "heading" /\ Len(args.turns) < MaxTurns

TurnRight ==
    /\ CanTurn
    /\ args' = [args EXCEPT !.turns = Append(@, "R")]
    /\ out' = turn_right(out)
    /\ UNCHANGED <<op, nonLibVars>>

TurnLeft ==
    /\ CanTurn
    /\ args' = [args EXCEPT !.turns = Append(@, "L")]
    /\ out' = turn_left(out)
    /\ UNCHANGED <<op, nonLibVars>>

Opposite ==
    /\ CanTurn
    /\ args' = [args EXCEPT !.turns = Append(@, "O")]
    /\ out' = opposite(out)
    /\ UNCHANGED <<op, nonLibVars>>

\* the three conversions of Cardinal::ALL[i] and GridDelta::CARDINALS[i] (i from 0)
CallInto ==
    /\ op = "none"
    /\ \E i \in 0 .. 3 :
        /\ op' = "into"
        /\ args' = [i |-> i, cardinal |-> ALL[i + 1]]
        /\ out' = [delta |-> into_GridDelta(ALL[i + 1]),
                   isize |-> into_isize(ALL[i + 1]),
                   i32 |-> into_i32(ALL[i + 1]),
                   cardinals |-> CARDINALS[i + 1]]
        /\ UNCHANGED nonLibVars

Render(s) == [bits |-> as_bits(s), glyph |-> to_box_drawing_char(s)]

\* CardinalSet::default(), then `set += cardinal`, rendered after each
NewCardinalSet ==
    /\ op = "none"
    /\ op' = "cardinal_set"
    /\ args' = CardinalSet_default
    /\ out' = Render(CardinalSet_default)
    /\ UNCHANGED nonLibVars

AddCardinal ==
    /\ op = "cardinal_set"
    /\ \E c \in Cardinal :
        /\ args' = add_assign(args, c)
        /\ out' = Render(add_assign(args, c))
    /\ UNCHANGED <<op, nonLibVars>>

\* vector_between(a, b), what a.checked_add of it gives, its inverse, and
\* vector_between(b, a); an overflowing negation panics or wraps by the build
CallVectorBetween ==
    /\ op = "none"
    /\ \E a \in GridAddress, b \in GridAddress, build \in Builds :
        LET v == vector_between(a, b, build) IN
        /\ op' = "vector_between"
        /\ args' = [start |-> a, end |-> b]
        /\ out' = [vector |-> v,
                   moved |-> IF IsOk(v) THEN Ok(checked_add(a, Val(v))) ELSE Panic,
                   inverted |-> IF IsOk(v) THEN inverted(Val(v), build) ELSE Panic,
                   reverse |-> vector_between(b, a, build)]
        /\ UNCHANGED nonLibVars

CallGet ==
    /\ op = "none"
    /\ \E g \in LibGrids, x \in 0 .. MaxGridW, y \in 0 .. MaxGridH :
        /\ op' = "get"
        /\ args' = [grid |-> g, x |-> x, y |-> y]
        /\ out' = [get |-> get(g, x, y),
                   get_mut |-> get_mut(g, x, y),
                   get_at |-> get_at(g, <<x, y>>),
                   get_mut_at |-> get_mut_at(g, <<x, y>>),
                   index |-> index(g, <<x, y>>),
                   index_mut |-> index_mut(g, <<x, y>>)]
        /\ UNCHANGED nonLibVars

CallNewDefault ==
    /\ op = "none"
    /\ \E w \in 0 .. MaxGridW, h \in 0 .. MaxGridH :
        /\ op' = "new_default"
        /\ args' = [width |-> w, height |-> h]
        /\ out' = new_default(w, h)
        /\ UNCHANGED nonLibVars

Next ==
    \/ CallCheckedAdd
    \/ CallStepAndBack
    \/ StartHeading
    \/ TurnRight
    \/ TurnLeft
    \/ Opposite
    \/ CallInto
    \/ NewCardinalSet
    \/ AddCardinal
    \/ CallVectorBetween
    \/ CallGet
    \/ CallNewDefault

Spec == Init /\ [][Next]_vars

-----------------------------------------------------------------------------
(* Claims about the address arithmetic *)

\* the exact sums of a checked_add call
SumX == args.addr[1] + args.delta[1]
SumY == args.addr[2] + args.delta[2]

\* C1 as stated: checked_add returns None exactly when x+dx < 0 or y+dy < 0, and
\* Some(x+dx, y+dy) otherwise, however large the coordinates are.
C1_Original ==
    op = "checked_add" =>
        IF SumX < 0 \/ SumY < 0 THEN out = None ELSE out = Some(<<SumX, SumY>>)

\* C1 (amended): checked_add returns None, never a fault, exactly when x+dx or
\* y+dy is below zero or above usize::MAX, and Some(x+dx, y+dy) otherwise.
C1_CheckedAdd ==
    op = "checked_add" =>
        IF SumX < 0 \/ SumY < 0 \/ SumX > UMax \/ SumY > UMax
        THEN out = None
        ELSE out = Some(<<SumX, SumY>>)

C1_Witness ==
    /\ op = "checked_add"
    /\ SumX < 0
    /\ SumY \in Usize
    /\ out = None

\* C2: when a.checked_add(c.into()) is Some(b), b.checked_add(c.opposite().into())
\* is Some(a).
C2_StepAndBack ==
    op = "step_and_back" /\ IsSome(out.there) => out.back = Some(args.addr)

C2_Witness ==
    /\ op = "step_and_back"
    /\ args.cardinal = "North"
    /\ IsSome(out.there)
    /\ out.there # Some(args.addr)
    /\ out.back = Some(args.addr)

\* C3: turn_right and turn_left are total bijections of the four cardinals, each a
\* 4-cycle (back at the start after four turns and not before), each undoing the
\* other, and opposite is an involution.
C3_Turns ==
    /\ \A c, d \in Cardinal :
        /\ turn_right(c) \in Cardinal /\ turn_left(c) \in Cardinal
        /\ c # d => turn_right(c) # turn_right(d) /\ turn_left(c) # turn_left(d)
    /\ op = "heading" =>
        LET t == args.turns
            same(k) == \A i \in 1 .. Len(t) : t[i] = k
        IN  /\ out \in Cardinal
            /\ Len(t) = 4 /\ (same("R") \/ same("L")) => out = args.start
            /\ Len(t) \in 1 .. 3 /\ (same("R") \/ same("L")) => out # args.start
            /\ t \in {<<"R", "L">>, <<"L", "R">>, <<"O", "O">>} => out = args.start

C3_Witness ==
    /\ op = "heading"
    /\ args.turns = <<"R", "R", "R", "R">>
    /\ args.start = "North"
    /\ out = "North"

\* C4: the conversion maps North to (0,-1), East to (1,0), South to (0,1) and West
\* to (-1,0); the GridDelta, isize and i32 conversions agree, and Cardinal::ALL[i]
\* converts to GridDelta::CARDINALS[i].
C4_Into ==
    op = "into" =>
        /\ out.delta = (CASE args.cardinal = "North" -> <<0, -1>>
                          [] args.cardinal = "East" -> <<1, 0>>
                          [] args.cardinal = "South" -> <<0, 1>>
                          [] args.cardinal = "West" -> <<-1, 0>>)
        /\ out.isize = out.delta
        /\ out.i32 = out.delta
        /\ out.cardinals = out.delta

C4_Witness ==
    /\ op = "into"
    /\ args.i = 2
    /\ args.cardinal = "South"
    /\ out.cardinals = <<0, 1>>

\* the exact displacement of a vector_between call
ExactDx == args.end[1] - args.start[1]
ExactDy == args.end[2] - args.start[2]

VectorBetweenExact ==
    /\ out.vector = Ok(<<ExactDx, ExactDy>>)
    /\ out.moved = Ok(Some(args.end))
    /\ IsOk(out.inverted)
    /\ out.inverted = out.reverse

C6_BoxDrawing ==
    op = "cardinal_set" =>
        /\ out.bits \in 0 .. 15
        /\ (out.bits \div 8) % 2 = 1 <=> contains(args, "North")
        /\ (out.bits \div 4) % 2 = 1 <=> contains(args, "East")
        /\ (out.bits \div 2) % 2 = 1 <=> contains(args, "South")
        /\ out.bits % 2 = 1 <=> contains(args, "West")
        /\ out.glyph # 63
        /\ \A s \in CardinalSet : s # args => to_box_drawing_char(s) # out.glyph

C6_Witness ==
    /\ op = "cardinal_set"
    /\ len(args) = 4
    /\ out = [bits |-> 15, glyph |-> 9532]

-----------------------------------------------------------------------------
(* Claims about the grid container *)

\* C7: on a rectangular grid get, get_mut, get_at and get_mut_at return the tile
\* exactly when x < width() and y < height() and None otherwise; grid[addr] yields
\* the same tile when get_at is Some and panics exactly when it is None.
C7_Get ==
    op = "get" /\ IsRectangular(args.grid) =>
        LET expected == IF args.x < width(args.grid) /\ args.y < height(args.grid)
                        THEN Some(args.grid[args.y + 1][args.x + 1])
                        ELSE None
        IN  /\ out.get = expected
            /\ out.get_mut = expected
            /\ out.get_at = expected
            /\ out.get_mut_at = expected
            /\ out.index = (IF IsSome(expected) THEN Ok(expected[1]) ELSE Panic)
            /\ out.index_mut = out.index

C7_Witness ==
    /\ op = "get"
    /\ IsRectangular(args.grid)
    /\ height(args.grid) > args.y
    /\ width(args.grid) = args.x
    /\ args.x > 0
    /\ out.get_at = None
    /\ out.index = Panic

NewDefaultTiles ==
    /\ \A y \in 1 .. Len(out) : Len(out[y]) = args.width
    /\ \A x \in 0 .. args.width - 1, y \in 0 .. args.height - 1 :
        get(out, x, y) = Some(TileDefault)

\* C8 as stated: for all width and height, new_default(width, height) has height()
\* = height and width() = width, and every tile is the default.
C8_Original ==
    op = "new_default" =>
        /\ height(out) = args.height
        /\ width(out) = args.width
        /\ NewDefaultTiles

\* C8 (amended): height() = height; width() = width when height > 0 and 0 when
\* height = 0; every tile is the default.
C8_NewDefault ==
    op = "new_default" =>
        /\ height(out) = args.height
        /\ width(out) = (IF args.height = 0 THEN 0 ELSE args.width)
        /\ NewDefaultTiles

C8_Witness ==
    /\ op = "new_default"
    /\ args.height > 0
    /\ args.width > args.height
    /\ width(out) = args.width
    /\ height(out) = args.height

-----------------------------------------------------------------------------
(* puzzle12: Tile, Area and the flood fill *)

Letters == {"A", "B"}

\* a Tile as run() builds it: no area yet, no fences
NewTile(c) == [letter |-> c, area_id |-> None, fences |-> CardinalSet_default]

\* the width and height of the grids handed to flood(): every row equally long,
\* and a Vec's length is a usize
FloodDims ==
    {d \in (1 .. MaxCells) \X (1 .. MaxCells) :
        d[1] * d[2] <= MaxCells /\ d[1] <= UMax /\ d[2] <= UMax}

\* the Grid<Tile> values run() can build from equal-length lines (or no line)
FloodGrids ==
    {<<>>} \cup UNION {[1 .. d[2] -> [1 .. d[1] -> {NewTile(c) : c \in Letters}]] :
                        d \in FloodDims}

\* grid[addr] of a grid the caller knows to hold addr
TileAt(g, addr) == Val(index(g, addr))

add_fence_overwrite(g, addr, cardinal) ==
    [g EXCEPT ![addr[2] + 1][addr[1] + 1].fences =
        add_assign(CardinalSet_default, cardinal)]

\* `grid[addr].fences += cardinal`
add_fence(g, addr, cardinal) ==
    [g EXCEPT ![addr[2] + 1][addr[1] + 1].fences = add_assign(@, cardinal)]

mark_tile_only(st, addr, area_id) ==
    [st EXCEPT !.tiles[addr[2] + 1][addr[1] + 1].area_id = Some(area_id)]

\* the head of flood_from: the tile takes the id and the area takes the address
\* (entry().and_modify() changes nothing when the area is not in the map)
mark(st, addr, area_id) ==
    [tiles |-> [st.tiles EXCEPT ![addr[2] + 1][addr[1] + 1].area_id = Some(area_id)],
     areas |-> IF area_id \in DOMAIN st.areas
               THEN [st.areas EXCEPT ![area_id].addresses = @ \cup {addr}]
               ELSE st.areas]

continues_any_letter(neighbor, tile) == TRUE

\* `neighbor.letter == grid[addr].letter`
continues(neighbor, tile) == neighbor.letter = tile.letter

RECURSIVE flood_from(_, _, _)
RECURSIVE flood_cardinals(_, _, _, _)

\* the loop of flood_from over Cardinal::ALL, from its i-th cardinal on;
\* st is the grid and the area map, [tiles, areas]
flood_cardinals(addr, st, area_id, i) ==
    IF i > Len(ALL) THEN st
    ELSE
        LET cardinal == ALL[i]
            fenced == [st EXCEPT !.tiles = add_fence(@, addr, cardinal)]
            neighbor_addr == checked_add(addr, into_GridDelta(cardinal))
            neighbor == get_at(st.tiles, neighbor_addr[1])
            after ==
                IF IsSome(neighbor_addr)
                THEN IF IsSome(neighbor)
                     THEN IF neighbor[1].area_id = None
                          THEN IF continues(neighbor[1], TileAt(st.tiles, addr))
                               THEN flood_from(neighbor_addr[1], st, area_id)
                               ELSE fenced
                          ELSE IF neighbor[1].area_id[1] # area_id
                               THEN fenced
                               ELSE st
                     ELSE fenced
                ELSE fenced
        IN  flood_cardinals(addr, after, area_id, i + 1)

flood_from(addr, st, area_id) ==
    flood_cardinals(addr, mark(st, addr, area_id), area_id, 1)

\* the address the raster scan of flood() visits after n others: x runs inside y
ScanAddr(n) == <<n % width(tiles), n \div width(tiles)>>

ScanEnd == width(tiles) * height(tiles)

InitFlood ==
    /\ op = "none"
    /\ args = <<>>
    /\ out = <<>>
    /\ tiles \in FloodGrids
    /\ areas = <<>>
    /\ next_id = 0
    /\ scan = 0
    /\ fstate = "scanning"
    /\ PriceIdle
    /\ MazeIdle
    /\ RestIdle

\* one pass of flood()'s inner loop at a tile without an area: a new Area is
\* inserted under next_id and flood_from runs to its end
FloodNewArea ==
    /\ fstate = "scanning"
    /\ scan < ScanEnd
    /\ TileAt(tiles, ScanAddr(scan)).area_id = None
    /\ LET addr == ScanAddr(scan)
           id == next_id
           inserted == areas @@ (id :> [letter |-> TileAt(tiles, addr).letter,
                                        addresses |-> {}])
           st == flood_from(addr, [tiles |-> tiles, areas |-> inserted], id)
       IN  /\ tiles' = st.tiles
           /\ areas' = st.areas
           /\ next_id' = next_id + 1
    /\ scan' = scan + 1
    /\ UNCHANGED <<fstate, nonFloodVars>>

\* one pass of the inner loop at a tile an earlier flood_from has reached
FloodSkip ==
    /\ fstate = "scanning"
    /\ scan < ScanEnd
    /\ TileAt(tiles, ScanAddr(scan)).area_id # None
    /\ scan' = scan + 1
    /\ UNCHANGED <<tiles, areas, next_id, fstate, nonFloodVars>>

\* the loops are over: flood() returns areas
FloodReturn ==
    /\ fstate = "scanning"
    /\ scan = ScanEnd
    /\ fstate' = "done"
    /\ UNCHANGED <<tiles, areas, next_id, scan, nonFloodVars>>

NextFlood ==
    \/ FloodNewArea
    \/ FloodSkip
    \/ FloodReturn

SpecFlood == InitFlood /\ [][NextFlood]_vars

-----------------------------------------------------------------------------
(* Claims about the flood fill *)

\* the addresses of the grid
Addresses == (0 .. width(tiles) - 1) \X (0 .. height(tiles) - 1)

AreaOf(addr) == TileAt(tiles, addr).area_id

AreasHolding(addr) == {id \in DOMAIN areas : addr \in areas[id].addresses}

RECURSIVE SumSizes(_)
SumSizes(ids) ==
    IF ids = {} THEN 0
    ELSE LET id == CHOOSE i \in ids : TRUE
         IN  Cardinality(areas[id].addresses) + SumSizes(ids \ {id})

\* C9: after flood() every tile has an area_id, every address is in the address
\* set of exactly one Area, the one its tile names, and the Area sizes sum to
\* width * height.
C9_Partition ==
    fstate = "done" =>
        /\ \A addr \in Addresses :
            /\ IsSome(AreaOf(addr))
            /\ AreasHolding(addr) = {AreaOf(addr)[1]}
        /\ \A id \in DOMAIN areas : areas[id].addresses \subseteq Addresses
        /\ SumSizes(DOMAIN areas) = width(tiles) * height(tiles)

C9_Witness ==
    /\ fstate = "done"
    /\ Cardinality(DOMAIN areas) >= 3
    /\ \E id \in DOMAIN areas : Cardinality(areas[id].addresses) >= 3
    /\ SumSizes(DOMAIN areas) >= 6

\* cardinal adjacency, by coordinates
Adjacent(a, b) ==
    \/ a[1] = b[1] /\ (a[2] = b[2] + 1 \/ b[2] = a[2] + 1)
    \/ a[2] = b[2] /\ (a[1] = b[1] + 1 \/ b[1] = a[1] + 1)

\* the addresses of S and those adjacent to one of them with the same letter
JoinStep(S) ==
    S \cup {b \in Addresses : \E a \in S :
                Adjacent(a, b) /\ TileAt(tiles, a).letter = TileAt(tiles, b).letter}

\* the addresses joined to those of S by paths of adjacent tiles of one letter:
\* JoinStep repeated until nothing is added (n bounds the rounds left)
RECURSIVE Joined(_, _)
Joined(S, n) ==
    IF n = 0 THEN S
    ELSE LET T == JoinStep(S) IN IF T = S THEN S ELSE Joined(T, n - 1)

\* C10: after flood() two tiles carry the same area_id exactly when a path of
\* cardinally adjacent tiles of one letter joins them; an Area holds one letter.
C10_Regions ==
    fstate = "done" =>
        /\ \A a \in Addresses :
            {b \in Addresses : AreaOf(a) = AreaOf(b)} = Joined({a}, Cardinality(Addresses))
        /\ \A id \in DOMAIN areas : \A a \in areas[id].addresses :
            TileAt(tiles, a).letter = areas[id].letter

C10_Witness ==
    /\ fstate = "done"
    /\ \E a, b, c \in Addresses :
        /\ TileAt(tiles, a).letter = TileAt(tiles, b).letter
        /\ AreaOf(a) # AreaOf(b)
        /\ a # c
        /\ AreaOf(a) = AreaOf(c)

\* the address next to addr in direction d, by coordinates (y grows downward);
\* it may lie outside the grid
Toward(addr, d) ==
    CASE d = "North" -> <<addr[1], addr[2] - 1>>
      [] d = "East" -> <<addr[1] + 1, addr[2]>>
      [] d = "South" -> <<addr[1], addr[2] + 1>>
      [] d = "West" -> <<addr[1] - 1, addr[2]>>

HasFence(addr, d) == contains(TileAt(tiles, addr).fences, d)

\* C17: after flood() a tile has a fence in direction d exactly when the address
\* next to it in direction d is off the grid or holds a tile of another area;
\* so fences are mirrored across a border and none lies inside a region.
C17_Fences ==
    fstate = "done" =>
        \A addr \in Addresses : \A d \in Cardinal :
            LET next == Toward(addr, d) IN
            /\ HasFence(addr, d) <=>
                (next \notin Addresses \/ AreaOf(next) # AreaOf(addr))
            /\ next \in Addresses =>
                /\ HasFence(addr, d) => HasFence(next, opposite(d))
                /\ AreaOf(next) = AreaOf(addr) => ~HasFence(addr, d)

C17_Witness ==
    /\ fstate = "done"
    /\ \E addr \in Addresses :
        /\ Toward(addr, "East") \in Addresses
        /\ Toward(addr, "North") \in Addresses
        /\ HasFence(addr, "East")
        /\ HasFence(Toward(addr, "East"), "West")
        /\ ~HasFence(addr, "North")

-----------------------------------------------------------------------------
(* puzzle12: count_edges and the pricing loop of run() *)

edge_deltas_one_way(cardinal) == <<into_GridDelta(turn_right(cardinal))>>

\* `[d_plus, d_minus]`: the two directions along the edge of a fence toward cardinal
edge_deltas(cardinal) ==
    <<into_GridDelta(turn_right(cardinal)), into_GridDelta(turn_left(cardinal))>>

RECURSIVE edge_scan_through(_, _, _, _, _, _)
edge_scan_through(g, pos, delta, cardinal, area_id, sn) ==
    LET next == checked_add(pos, delta)
        neighbor == IF IsSome(next) THEN get_at(g, next[1]) ELSE None
    IN  IF ~IsSome(neighbor) THEN sn
        ELSE IF contains(neighbor[1].fences, cardinal)
             THEN edge_scan_through(g, next[1], delta, cardinal, area_id,
                                    sn \cup {<<next[1], cardinal>>})
             ELSE sn

\* the 'edge_scan loop from pos along delta: every tile of the same area that
\* carries the fence is inserted in seen, up to the first tile that is off the
\* grid, of another area or without the fence
RECURSIVE edge_scan(_, _, _, _, _, _)
edge_scan(g, pos, delta, cardinal, area_id, sn) ==
    LET next == checked_add(pos, delta)
        neighbor == IF IsSome(next) THEN get_at(g, next[1]) ELSE None
    IN  IF ~IsSome(neighbor) THEN sn
        ELSE IF neighbor[1].area_id # area_id THEN sn
        ELSE IF contains(neighbor[1].fences, cardinal)
             THEN edge_scan(g, next[1], delta, cardinal, area_id,
                            sn \cup {<<next[1], cardinal>>})
             ELSE sn

\* `for delta in [d_plus, d_minus]`, from its i-th delta on
RECURSIVE edge_scans(_, _, _, _, _, _)
edge_scans(g, addr, cardinal, area_id, sn, i) ==
    IF i > Len(edge_deltas(cardinal)) THEN sn
    ELSE edge_scans(g, addr, cardinal, area_id,
                    edge_scan(g, addr, edge_deltas(cardinal)[i], cardinal, area_id, sn),
                    i + 1)

\* `for cardinal in Cardinal::ALL` of count_edges at addr, from the i-th cardinal
\* on; st is [seen, edge_counts].  (The local `length` is never read.)
RECURSIVE count_cardinals(_, _, _, _)
count_cardinals(g, addr, st, i) ==
    IF i > Len(ALL) THEN st
    ELSE
        LET cardinal == ALL[i]
            tile == TileAt(g, addr)
        IN  IF contains(tile.fences, cardinal) /\ <<addr, cardinal>> \notin st.seen
            THEN count_cardinals(g, addr,
                    [seen |-> edge_scans(g, addr, cardinal, tile.area_id,
                                         st.seen \cup {<<addr, cardinal>>}, 1),
                     edge_counts |-> st.edge_counts + 1],
                    i + 1)
            ELSE count_cardinals(g, addr, st, i + 1)

\* `fence_count`: the sum of tiles[addr].fences.len() over the addresses
RECURSIVE fence_count(_, _)
fence_count(g, addresses) ==
    IF addresses = {} THEN 0
    ELSE LET addr == CHOOSE a \in addresses : TRUE
         IN  len(TileAt(g, addr).fences) + fence_count(g, addresses \ {addr})

\* the entry of count_edges(&tiles, area) for the area under id
count_edges_entry(id) ==
    /\ area' = Some(id)
    /\ pending' = areas[id].addresses
    /\ seen' = {}
    /\ edge_counts' = 0
    /\ estate' = "counting"

\* count_edges is called on one Area of the flooded grid
EdgeCall ==
    /\ fstate = "done"
    /\ estate = "idle"
    /\ \E id \in DOMAIN areas : count_edges_entry(id)
    /\ UNCHANGED <<priced, part1_total, part2_total, floodVars, libVars, mazeVars, restVars>>

\* one pass of `for addr in &area.addresses`: a HashSet yields its elements in
\* an order the program does not control, so any address not yet visited
EdgeVisit ==
    /\ estate = "counting"
    /\ \E addr \in pending :
        LET st == count_cardinals(tiles, addr,
                    [seen |-> seen, edge_counts |-> edge_counts], 1)
        IN  /\ seen' = st.seen
            /\ edge_counts' = st.edge_counts
            /\ pending' = pending \ {addr}
    /\ UNCHANGED <<area, estate, priced, part1_total, part2_total, floodVars, libVars, mazeVars, restVars>>

\* count_edges returns edge_counts
EdgeReturn ==
    /\ estate = "counting"
    /\ pending = {}
    /\ estate' = "counted"
    /\ UNCHANGED <<area, pending, seen, edge_counts, priced, part1_total,
                   part2_total, floodVars, libVars, mazeVars, restVars>>

NextEdges ==
    \/ FloodNewArea
    \/ FloodSkip
    \/ FloodReturn
    \/ EdgeCall
    \/ EdgeVisit
    \/ EdgeReturn

\* the grids count_edges is run on: FloodGrids of at most MaxSide rows and columns
EdgeGrids ==
    {<<>>} \cup UNION {[1 .. d[2] -> [1 .. d[1] -> {NewTile(c) : c \in Letters}]] :
                        d \in {e \in FloodDims : e[1] <= MaxSide /\ e[2] <= MaxSide}}

InitEdges ==
    /\ op = "none"
    /\ args = <<>>
    /\ out = <<>>
    /\ tiles \in EdgeGrids
    /\ areas = <<>>
    /\ next_id = 0
    /\ scan = 0
    /\ fstate = "scanning"
    /\ PriceIdle
    /\ MazeIdle
    /\ RestIdle

\* flood() on a small grid, then count_edges on any one of its Areas
SpecEdges == InitEdges /\ [][NextEdges]_vars

-----------------------------------------------------------------------------
(* Claims about count_edges *)

\* the addresses of the Area count_edges is working on
AreaAddrs == areas[area[1]].addresses

\* the tiles of that Area with a fence toward d
Fenced(d) == {a \in AreaAddrs : HasFence(a, d)}

\* the addresses before and after a on the axis perpendicular to d
Before(a, d) ==
    IF d \in {"North", "South"} THEN <<a[1] - 1, a[2]>> ELSE <<a[1], a[2] - 1>>

After(a, d) ==
    IF d \in {"North", "South"} THEN <<a[1] + 1, a[2]>> ELSE <<a[1], a[2] + 1>>

\* a maximal run of consecutive tiles of Fenced(d) starts at each of these
RunStarts(d) == {a \in Fenced(d) : Before(a, d) \notin Fenced(d)}

MaximalRuns ==
    Cardinality(RunStarts("North")) + Cardinality(RunStarts("East"))
        + Cardinality(RunStarts("South")) + Cardinality(RunStarts("West"))

\* C18: count_edges counts the maximal runs of consecutive tiles of the area
\* that carry a fence toward the same direction.  At every point of the outer
\* loop, whatever the order of the addresses, seen holds only fences of the
\* area, holds a run whole or not at all, and edge_counts is the number of runs
\* in seen: a fence is attributed to one counted edge.  At the return seen
\* holds every fence of the area and edge_counts is the number of maximal runs.
C18_CountEdges ==
    estate \in {"counting", "counted"} =>
        /\ \A p \in seen :
            /\ p[1] \in Fenced(p[2])
            /\ Before(p[1], p[2]) \in Fenced(p[2]) => <<Before(p[1], p[2]), p[2]>> \in seen
            /\ After(p[1], p[2]) \in Fenced(p[2]) => <<After(p[1], p[2]), p[2]>> \in seen
        /\ edge_counts = Cardinality({p \in seen : p[1] \in RunStarts(p[2])})
        /\ \A a \in AreaAddrs \ pending : \A d \in Cardinal :
            HasFence(a, d) => <<a, d>> \in seen
        /\ estate = "counted" =>
            /\ seen = {p \in AreaAddrs \X Cardinal : HasFence(p[1], p[2])}
            /\ edge_counts = MaximalRuns

C18_Witness ==
    /\ estate = "counted"
    /\ Cardinality(AreaAddrs) = 8
    /\ edge_counts = 8
    /\ Cardinality(seen) = 16

\* the in-grid neighbours of a
Neighbours(a) == {b \in Addresses : Adjacent(a, b)}

\* S is a full w by h rectangle of addresses
IsRectangle(S, w, h) ==
    \E x0 \in 0 .. width(tiles) - 1, y0 \in 0 .. height(tiles) - 1 :
        S = (x0 .. x0 + w - 1) \X (y0 .. y0 + h - 1)

\* C11: a region of a single tile whose letter differs from the letters of all
\* its neighbours has 4 fences and count_edges gives it 4 sides; a region that
\* is a full w by h rectangle has 2 * (w + h) fences and 4 sides.
C11_Rectangles ==
    estate = "counted" =>
        /\ \A a \in AreaAddrs :
            (\A b \in Neighbours(a) : TileAt(tiles, b).letter # TileAt(tiles, a).letter)
                => /\ AreaAddrs = {a}
                   /\ fence_count(tiles, AreaAddrs) = 4
                   /\ edge_counts = 4
        /\ \A w \in 1 .. width(tiles), h \in 1 .. height(tiles) :
            IsRectangle(AreaAddrs, w, h)
                => /\ fence_count(tiles, AreaAddrs) = 2 * (w + h)
                   /\ edge_counts = 4

C11_Witness ==
    /\ estate = "counted"
    /\ IsRectangle(AreaAddrs, 2, 2)
    /\ Cardinality(Addresses) = 9
    /\ edge_counts = 4
    /\ fence_count(tiles, AreaAddrs) = 8

-----------------------------------------------------------------------------
(* puzzle12: run(), the flood and then the pricing loop *)

\* the four lines AAAA / BBCD / BBCC / EEEC
FixtureLetters ==
    << <<"A", "A", "A", "A">>,
       <<"B", "B", "C", "D">>,
       <<"B", "B", "C", "C">>,
       <<"E", "E", "E", "C">> >>

\* the Grid<Tile> run() builds from lines of characters
TilesOf(lines) ==
    [y \in DOMAIN lines |-> [x \in DOMAIN lines[y] |-> NewTile(lines[y][x])]]

\* the grids run() is given: every grid of two letters of at most MaxPriceCells
\* tiles, and the fixture
PriceGrids ==
    {<<>>, TilesOf(FixtureLetters)}
        \cup UNION {[1 .. d[2] -> [1 .. d[1] -> {NewTile(c) : c \in Letters}]] :
                        d \in {e \in FloodDims : e[1] * e[2] <= MaxPriceCells}}

price_sum(size, count) == size + count

\* `size * fence_count` and `size * edge_count`; the prices and totals are
\* usize values far below usize::MAX on the grids priced here, so they are
\* kept as naturals
price(size, count) == size * count

InitPricing ==
    /\ op = "none"
    /\ args = <<>>
    /\ out = <<>>
    /\ tiles \in PriceGrids
    /\ areas = <<>>
    /\ next_id = 0
    /\ scan = 0
    /\ fstate = "scanning"
    /\ PriceIdle
    /\ MazeIdle
    /\ RestIdle

\* `for (area_id, area) in &areas` takes its next Area, in an order the HashMap
\* chooses, and the body runs up to its call of count_edges
PriceCall ==
    /\ fstate = "done"
    /\ estate = "idle"
    /\ \E id \in DOMAIN areas \ priced : count_edges_entry(id)
    /\ UNCHANGED <<priced, part1_total, part2_total, floodVars, libVars, mazeVars, restVars>>

\* count_edges returns and the body of the pricing loop runs to its end
PriceArea ==
    /\ estate = "counting"
    /\ pending = {}
    /\ LET size == Cardinality(AreaAddrs)
           p1_price == price(size, fence_count(tiles, AreaAddrs))
           p2_price == price(size, edge_counts)
       IN  /\ part1_total' = part1_total + p1_price
           /\ part2_total' = part2_total + p2_price
    /\ priced' = priced \cup {area[1]}
    /\ area' = None
    /\ seen' = {}
    /\ edge_counts' = 0
    /\ estate' = "idle"
    /\ UNCHANGED <<pending, floodVars, libVars, mazeVars, restVars>>

\* the pricing loop is over: run() logs the two totals and returns
PriceDone ==
    /\ fstate = "done"
    /\ estate = "idle"
    /\ priced = DOMAIN areas
    /\ estate' = "priced"
    /\ UNCHANGED <<area, pending, seen, edge_counts, priced, part1_total,
                   part2_total, floodVars, libVars, mazeVars, restVars>>

NextPricing ==
    \/ FloodNewArea
    \/ FloodSkip
    \/ FloodReturn
    \/ PriceCall
    \/ EdgeVisit
    \/ PriceArea
    \/ PriceDone

SpecPricing == InitPricing /\ [][NextPricing]_vars

\* the letters of the grid run() was given
LettersOf(g) == [y \in DOMAIN g |-> [x \in DOMAIN g[y] |-> g[y][x].letter]]

\* C12: on AAAA / BBCD / BBCC / EEEC run() finds 5 regions; the region of
\* letter A has 4 tiles and 4 sides; the total fence price is 140 and the total
\* sides price is 80.
C12_Fixture ==
    LettersOf(tiles) = FixtureLetters =>
        /\ fstate = "done" => Cardinality(DOMAIN areas) = 5
        /\ (estate = "counting" /\ pending = {} /\ areas[area[1]].letter = "A")
            => /\ Cardinality(AreaAddrs) = 4
               /\ edge_counts = 4
        /\ estate = "priced" =>
            /\ part1_total = 140
            /\ part2_total = 80

C12_Witness ==
    /\ LettersOf(tiles) = FixtureLetters
    /\ estate = "priced"
    /\ Cardinality(priced) = 5
    /\ part1_total = 140

-----------------------------------------------------------------------------
(* puzzle16: the maze, MazePosition and explore() *)

\* the edge costs get_adjacent gives: advancing forward, rotating
ForwardCost == 1
TurnCost == 1000

\* u32::MAX
U32_MAX == Pow2(CostBits) - 1

MazeTile == {"Wall", "Open"}

MazePosition(address, heading) == [address |-> address, heading |-> heading]

PathCandidate(pos, cost) == [pos |-> pos, cost |-> cost]

PathData(cost, parents) == [cost |-> cost, parents |-> parents]

get_adjacent_cheap_turn(pos) ==
    LET ahead == checked_add(pos.address, into_GridDelta(pos.heading))
    IN  (IF IsSome(ahead)
         THEN << <<MazePosition(ahead[1], pos.heading), ForwardCost>> >>
         ELSE << >>)
        \o << <<MazePosition(pos.address, turn_left(pos.heading)), ForwardCost>>,
              <<MazePosition(pos.address, turn_right(pos.heading)), ForwardCost>> >>

\* get_adjacent(): the position ahead when its address exists, then the turn to
\* the left, then the turn to the right, each with its edge cost
get_adjacent(pos) ==
    LET ahead == checked_add(pos.address, into_GridDelta(pos.heading))
    IN  (IF IsSome(ahead)
         THEN << <<MazePosition(ahead[1], pos.heading), ForwardCost>> >>
         ELSE << >>)
        \o << <<MazePosition(pos.address, turn_left(pos.heading)), TurnCost>>,
              <<MazePosition(pos.address, turn_right(pos.heading)), TurnCost>> >>

relax_keep_parents(pd, neighbor, neighbor_cost, pos) ==
    LET inserted == IF neighbor \in DOMAIN pd THEN pd
                    ELSE pd @@ (neighbor :> PathData(neighbor_cost, <<>>))
        lowered == IF neighbor_cost < inserted[neighbor].cost
                   THEN [inserted EXCEPT ![neighbor].cost = neighbor_cost]
                   ELSE inserted
    IN  IF neighbor_cost <= lowered[neighbor].cost
        THEN [lowered EXCEPT ![neighbor].parents = Append(@, pos)]
        ELSE lowered

relax_first_parent_only(pd, neighbor, neighbor_cost, pos) ==
    LET inserted == IF neighbor \in DOMAIN pd THEN pd
                    ELSE pd @@ (neighbor :> PathData(neighbor_cost, <<>>))
        lowered == IF neighbor_cost < inserted[neighbor].cost
                   THEN [inserted EXCEPT ![neighbor] = PathData(neighbor_cost, <<>>)]
                   ELSE inserted
    IN  IF neighbor_cost <= lowered[neighbor].cost /\ lowered[neighbor].parents = <<>>
        THEN [lowered EXCEPT ![neighbor].parents = Append(@, pos)]
        ELSE lowered

\* the update of path_data for an Open neighbour: entry().or_insert, the
\* strictly-cheaper branch, the cheaper-or-equal branch
relax(pd, neighbor, neighbor_cost, pos) ==
    LET inserted == IF neighbor \in DOMAIN pd THEN pd
                    ELSE pd @@ (neighbor :> PathData(neighbor_cost, <<>>))
        lowered == IF neighbor_cost < inserted[neighbor].cost
                   THEN [inserted EXCEPT ![neighbor] = PathData(neighbor_cost, <<>>)]
                   ELSE inserted
    IN  IF neighbor_cost <= lowered[neighbor].cost
        THEN [lowered EXCEPT ![neighbor].parents = Append(@, pos)]
        ELSE lowered

\* the width and height of the mazes
MazeDims ==
    {d \in (1 .. MaxMazeCells) \X (1 .. MaxMazeCells) :
        d[1] * d[2] <= MaxMazeCells /\ d[1] <= UMax /\ d[2] <= UMax}

\* the addresses of a grid of rows g
AddressesOf(g) == UNION {{<<x - 1, y - 1>> : x \in DOMAIN g[y]} : y \in DOMAIN g}

\* what parse_input returns for rows of equal length holding an S and an E:
\* the two stand on Open tiles at different addresses
ParsedMazes(grids) ==
    UNION {{m \in [grid : {g}, start : AddressesOf(g), end : AddressesOf(g)] :
                /\ m.start # m.end
                /\ get_at(g, m.start) = Some("Open")
                /\ get_at(g, m.end) = Some("Open")} : g \in grids}

\* "..." / "S#E" / "...": two routes from S to E, mirror images of each other
RingLines ==
    << <<"Open", "Open", "Open">>,
       <<"Open", "Wall", "Open">>,
       <<"Open", "Open", "Open">> >>

\* the ring with S and E at the middle of two opposite sides: the two routes cost
\* the same from (0, 1) facing East, and from (1, 0) a position is first
\* recorded at a cost that a later relaxation lowers
MazeFixtures ==
    {[grid |-> RingLines, start |-> <<0, 1>>, end |-> <<2, 1>>],
     [grid |-> RingLines, start |-> <<1, 0>>, end |-> <<1, 2>>]}

MazeInputs ==
    ParsedMazes(UNION {[1 .. d[2] -> [1 .. d[1] -> MazeTile]] : d \in MazeDims})
        \cup MazeFixtures

\* the entry of explore(): the queue and the path data hold the start position,
\* facing East, at cost 0 and without parent
InitMaze ==
    /\ op = "none"
    /\ args = <<>>
    /\ out = <<>>
    /\ FloodIdle
    /\ PriceIdle
    /\ RestIdle
    /\ \E m \in MazeInputs :
        LET start_pos == MazePosition(m.start, "East")
        IN  /\ maze = m.grid
            /\ maze_meta = [start_address |-> m.start, end_address |-> m.end]
            /\ to_search = SetToBag({PathCandidate(start_pos, 0)})
            /\ path_data = (start_pos :> PathData(0, <<>>))
    /\ visited = {}
    /\ cur = None
    /\ adj = <<>>
    /\ mstate = "exploring"
    /\ solution = None

\* the candidates pop() may return: those of least cost (the heap orders
\* candidates by cost alone, so which of several equal ones comes first is
\* left to the heap)
Cheapest ==
    {c \in BagToSet(to_search) : \A o \in BagToSet(to_search) : c.cost <= o.cost}

\* `to_search.pop()` gives a position already visited: `continue`
MazeSkip ==
    /\ mstate = "exploring"
    /\ cur = None
    /\ \E c \in Cheapest :
        /\ c.pos \in visited
        /\ to_search' = to_search (-) SetToBag({c})
    /\ UNCHANGED <<maze, maze_meta, path_data, visited, cur, adj, mstate, solution,
                   nonMazeVars>>

\* `to_search.pop()` gives a position not yet visited: it is inserted in
\* visited and get_adjacent() is called
MazePop ==
    /\ mstate = "exploring"
    /\ cur = None
    /\ \E c \in Cheapest :
        /\ c.pos \notin visited
        /\ to_search' = to_search (-) SetToBag({c})
        /\ visited' = visited \cup {c.pos}
        /\ cur' = Some(c)
        /\ adj' = get_adjacent(c.pos)
    /\ UNCHANGED <<maze, maze_meta, path_data, mstate, solution, nonMazeVars>>

\* one pass of the inner loop at a neighbour that is off the grid or a Wall
MazeBlocked ==
    /\ mstate = "exploring"
    /\ cur # None
    /\ adj # <<>>
    /\ get_at(maze, Head(adj)[1].address) # Some("Open")
    /\ adj' = Tail(adj)
    /\ cur' = IF Tail(adj) = <<>> THEN None ELSE cur
    /\ UNCHANGED <<maze, maze_meta, to_search, path_data, visited, mstate, solution,
                   nonMazeVars>>

\* one pass of the inner loop at an Open neighbour: its path data is updated,
\* and it is pushed on the queue unless visited.  (`cost + edge_cost` is a u32
\* sum; no sum of the mazes explored here comes near u32::MAX.)
MazeRelax ==
    /\ mstate = "exploring"
    /\ cur # None
    /\ adj # <<>>
    /\ get_at(maze, Head(adj)[1].address) = Some("Open")
    /\ LET neighbor == Head(adj)[1]
           edge_cost == Head(adj)[2]
           neighbor_cost == cur[1].cost + edge_cost
       IN  /\ path_data' = relax(path_data, neighbor, neighbor_cost, cur[1].pos)
           /\ to_search' =
                IF neighbor \notin visited
                THEN to_search (+) SetToBag({PathCandidate(neighbor, neighbor_cost)})
                ELSE to_search
    /\ adj' = Tail(adj)
    /\ cur' = IF Tail(adj) = <<>> THEN None ELSE cur
    /\ UNCHANGED <<maze, maze_meta, visited, mstate, solution, nonMazeVars>>

\* the queue is empty: explore() returns path_data
ExploreReturn ==
    /\ mstate = "exploring"
    /\ cur = None
    /\ to_search = EmptyBag
    /\ mstate' = "explored"
    /\ UNCHANGED <<maze, maze_meta, to_search, path_data, visited, cur, adj, solution,
                   nonMazeVars>>

\* the positions at the end address that path_data holds, in the order of
\* Cardinal::ALL
reached_goal_positions(pd, meta) ==
    SelectSeq([i \in 1 .. Len(ALL) |-> MazePosition(meta.end_address, ALL[i])],
              LAMBDA pos : pos \in DOMAIN pd)

\* the least of the costs of a non-empty sequence of positions
min_cost(pd, positions) ==
    CHOOSE c \in {pd[positions[i]].cost : i \in 1 .. Len(positions)} :
        \A i \in 1 .. Len(positions) : c <= pd[positions[i]].cost

solution_cost_first_reached(pd, meta) ==
    LET reached == reached_goal_positions(pd, meta)
    IN  IF reached = <<>> THEN U32_MAX ELSE pd[reached[1]].cost

\* solution_cost(): `min_by_key(cost).map_or(u32::MAX, cost)`
solution_cost(pd, meta) ==
    LET reached == reached_goal_positions(pd, meta)
    IN  IF reached = <<>> THEN U32_MAX ELSE min_cost(pd, reached)

\* `cheapest_goal_positions`
cheapest_goal_positions(pd, meta) ==
    LET reached == reached_goal_positions(pd, meta)
    IN  IF reached = <<>> THEN <<>>
        ELSE SelectSeq(reached, LAMBDA pos : pd[pos].cost = min_cost(pd, reached))

\* SolutionTile::from(MazeTile) over the rows of the maze
SolutionGrid(g) ==
    [y \in DOMAIN g |->
        [x \in DOMAIN g[y] |-> [maze_tile |-> g[y][x],
                                traversed |-> CardinalSet_default,
                                alt_traversed |-> CardinalSet_default]]]

\* `solution_grid[parent.address].traversed += cursor.heading;
\*  solution_grid[cursor.address].traversed += cursor.heading.opposite()`
paint_traversed(g, parent, cursor) ==
    LET out_line == [g EXCEPT ![parent.address[2] + 1][parent.address[1] + 1].traversed =
                        add_assign(@, cursor.heading)]
    IN  [out_line EXCEPT ![cursor.address[2] + 1][cursor.address[1] + 1].traversed =
            add_assign(@, opposite(cursor.heading))]

\* the same two assignments on alt_traversed
paint_alt_traversed(g, parent, cursor) ==
    LET out_line == [g EXCEPT ![parent.address[2] + 1][parent.address[1] + 1].alt_traversed =
                        add_assign(@, cursor.heading)]
    IN  [out_line EXCEPT ![cursor.address[2] + 1][cursor.address[1] + 1].alt_traversed =
            add_assign(@, opposite(cursor.heading))]

\* the first walk of paint_solution from cursor_opt: the first listed parent is
\* followed until a position has none
RECURSIVE paint_primary(_, _, _)
paint_primary(g, pd, cursor_opt) ==
    IF cursor_opt = None THEN g
    ELSE
        LET cursor == cursor_opt[1]
            parents == pd[cursor].parents
        IN  IF parents # <<>>
            THEN LET parent == parents[1]
                     painted == IF parent.address # cursor.address
                                THEN paint_traversed(g, parent, cursor)
                                ELSE g
                 IN  paint_primary(painted, pd,
                        IF parent \in DOMAIN pd THEN Some(parent) ELSE None)
            ELSE g

\* `for parent_pos in &datum.parents` of the second walk, from the i-th parent
\* on; st is [grid, to_visit]
RECURSIVE paint_parents(_, _, _, _)
paint_parents(st, pd, cursor, i) ==
    IF i > Len(pd[cursor].parents) THEN st
    ELSE
        LET parent_pos == pd[cursor].parents[i]
            painted == IF parent_pos.address # cursor.address
                       THEN paint_alt_traversed(st.grid, parent_pos, cursor)
                       ELSE st.grid
            queued == IF parent_pos \in DOMAIN pd
                      THEN Append(st.to_visit, parent_pos)
                      ELSE st.to_visit
        IN  paint_parents([grid |-> painted, to_visit |-> queued], pd, cursor, i + 1)

paint_alt_first_parent(g, pd, seen_pos, to_visit) ==
    IF to_visit = <<>> THEN g ELSE paint_primary(g, pd, Some(to_visit[1]))

\* the second walk of paint_solution: every parent of every position met is
\* followed, each position once
RECURSIVE paint_alt(_, _, _, _)
paint_alt(g, pd, seen_pos, to_visit) ==
    IF to_visit = <<>> THEN g
    ELSE
        LET cursor == Head(to_visit)
        IN  IF cursor \in seen_pos
            THEN paint_alt(g, pd, seen_pos, Tail(to_visit))
            ELSE LET st == paint_parents([grid |-> g, to_visit |-> Tail(to_visit)],
                                         pd, cursor, 1)
                 IN  paint_alt(st.grid, pd, seen_pos \cup {cursor}, st.to_visit)

\* paint_solution()
paint_solution(g, pd, meta) ==
    LET cheapest == cheapest_goal_positions(pd, meta)
        primary == paint_primary(SolutionGrid(g), pd,
                        IF cheapest = <<>> THEN None ELSE Some(cheapest[1]))
    IN  paint_alt(primary, pd, {}, cheapest)

\* spectator_spots(): the tiles with a traversed or an alt_traversed mark
spectator_spots(g) ==
    Cardinality({a \in AddressesOf(g) :
        \/ ~is_empty(TileAt(g, a).traversed)
        \/ ~is_empty(TileAt(g, a).alt_traversed)})

\* run() after explore(): paint_solution, solution_cost, spectator_spots
MazeSolve ==
    /\ mstate = "explored"
    /\ LET grid2 == paint_solution(maze, path_data, maze_meta)
       IN  solution' = Some([grid |-> grid2,
                             cost |-> solution_cost(path_data, maze_meta),
                             num_spots |-> spectator_spots(grid2)])
    /\ mstate' = "solved"
    /\ UNCHANGED <<maze, maze_meta, to_search, path_data, visited, cur, adj,
                   nonMazeVars>>

NextMaze ==
    \/ MazeSkip
    \/ MazePop
    \/ MazeBlocked
    \/ MazeRelax
    \/ ExploreReturn
    \/ MazeSolve

SpecMaze == InitMaze /\ [][NextMaze]_vars

-----------------------------------------------------------------------------
(* Claims about the weighted shortest path *)

\* the tile at a, when a is an address of the maze, is Open
OpenAt(a) ==
    /\ a[2] + 1 \in DOMAIN maze
    /\ a[1] + 1 \in DOMAIN maze[a[2] + 1]
    /\ maze[a[2] + 1][a[1] + 1] = "Open"

\* the headings a quarter turn away from h
QuarterTurns(h) ==
    IF h \in {"North", "South"} THEN {"East", "West"} ELSE {"North", "South"}

\* the edges out of position p, as <<position, cost>>: one step forward onto an
\* Open tile for 1, a quarter turn in place for 1000
EdgesFrom(p) ==
    (IF OpenAt(Toward(p.address, p.heading))
     THEN {<<MazePosition(Toward(p.address, p.heading), p.heading), 1>>}
     ELSE {})
    \cup {<<MazePosition(p.address, h), 1000>> : h \in QuarterTurns(p.heading)}

\* of a set of <<position, cost>>, the pairs of least cost for their position
Least(D) == {e \in D : \A f \in D : f[1] = e[1] => e[2] <= f[2]}

\* the least costs of the walks from the pairs of D, by repeated extension
\* (n bounds the rounds left)
RECURSIVE WalkCosts(_, _)
WalkCosts(D, n) ==
    IF n = 0 THEN D
    ELSE LET E == Least(D \cup UNION {{<<g[1], e[2] + g[2]>> : g \in EdgesFrom(e[1])} :
                                        e \in D})
         IN  IF E = D THEN D ELSE WalkCosts(E, n - 1)

StartPos == MazePosition(maze_meta.start_address, "East")

\* for each position a walk from the start position reaches, the least total
\* cost of such a walk
ShortestCosts ==
    WalkCosts({<<StartPos, 0>>}, 4 * Cardinality(AddressesOf(maze)))

RecordedCosts == {<<p, path_data[p].cost>> : p \in DOMAIN path_data}

\* the least of a non-empty set of numbers
MinOf(S) == CHOOSE c \in S : \A d \in S : c <= d

\* C13: after explore() the positions of path_data are those a walk from the
\* start position (start address, facing East) reaches, each with the least
\* total cost of such a walk; solution_cost is the least of these costs over
\* the positions at the end address.
C13_Costs ==
    mstate \in {"explored", "solved"} =>
        LET shortest == ShortestCosts
            at_end == {e[2] : e \in {f \in shortest : f[1].address = maze_meta.end_address}}
        IN  /\ RecordedCosts = shortest
            /\ (mstate = "solved" /\ at_end # {}) => solution[1].cost = MinOf(at_end)

C13_Witness ==
    /\ mstate = "solved"
    /\ solution[1].cost = 3004
    /\ Cardinality(DOMAIN path_data) = 32
    /\ \E p \in DOMAIN path_data : path_data[p].cost > solution[1].cost

\* some walk from the start position ends at the end address
EndReachable == \E e \in ShortestCosts : e[1].address = maze_meta.end_address

\* C14 (as claimed): when the end address is unreachable, what solution_cost
\* gives run() is an absence and not a cost value.  It is violated:
\* solution_cost returns the u32 u32::MAX, which run() logs as the solution cost.
C14_Original ==
    (mstate = "solved" /\ ~EndReachable) => solution[1].cost \notin Nat

\* what run() does hold when the end address is unreachable: no position at the
\* end address in path_data, the cost u32::MAX, and a grid without any mark
C14_Witness ==
    /\ mstate = "solved"
    /\ ~EndReachable
    /\ \A p \in DOMAIN path_data : p.address # maze_meta.end_address
    /\ solution[1].cost = U32_MAX
    /\ solution[1].num_spots = 0
    /\ solution[1].grid = SolutionGrid(maze)

\* the Open tiles of the maze
OpenTiles == {a \in AddressesOf(maze) : OpenAt(a)}

\* the tiles of the route that runs k steps East from the start and then m
\* steps along the column, downward when s = 1 and upward when s = -1
RouteTiles(k, m, s) ==
    {<<maze_meta.start_address[1] + i, maze_meta.start_address[2]>> : i \in 0 .. k}
    \cup {<<maze_meta.start_address[1] + k, maze_meta.start_address[2] + s * j>> :
            j \in 1 .. m}

\* the Open tiles are those of such a route and the end address is its last tile
IsRoute(k, m, s) ==
    /\ OpenTiles = RouteTiles(k, m, s)
    /\ maze_meta.end_address =
        <<maze_meta.start_address[1] + k, maze_meta.start_address[2] + s * m>>

\* C16: from the start tile facing East, a corridor of N tiles running East to
\* the end, everything else Wall or off the grid, costs N - 1; a route of N
\* tiles with one quarter turn (East and then along the column, or along the
\* column from the start) costs N - 1 + 1000.
C16_Corridor ==
    mstate = "solved" =>
        \A k \in 0 .. UMax, m \in 0 .. UMax, s \in {-1, 1} :
            (k + m >= 1 /\ IsRoute(k, m, s)) =>
                solution[1].cost = (k + m) + (IF m = 0 THEN 0 ELSE 1000)

C16_Witness ==
    /\ mstate = "solved"
    /\ IsRoute(1, 1, 1)
    /\ solution[1].cost = 1002

\* the positions listed as parents of n
ParentSet(n) == {path_data[n].parents[i] : i \in 1 .. Len(path_data[n].parents)}

\* the positions of path_data with an edge to n whose cost plus the cost of
\* the edge is the cost of n
ExactPredecessors(n) ==
    {p \in DOMAIN path_data :
        \E e \in EdgesFrom(p) : e[1] = n /\ path_data[p].cost + e[2] = path_data[n].cost}

\* the positions met by following parent links from those of S
\* (k bounds the rounds left)
RECURSIVE Ancestors(_, _)
Ancestors(S, k) ==
    IF k = 0 THEN S
    ELSE LET T == S \cup UNION {ParentSet(n) : n \in S}
         IN  IF T = S THEN S ELSE Ancestors(T, k - 1)

\* C19: when explore() returns, the parents of each position n of path_data
\* are, each listed once, the positions with an edge to n that reach n at its
\* recorded cost; the start position alone has no parent; no position is met
\* again by following parent links from it, so every chain of links ends at the
\* start position.
C19_Parents ==
    mstate \in {"explored", "solved"} =>
        \A n \in DOMAIN path_data :
            /\ Cardinality(ParentSet(n)) = Len(path_data[n].parents)
            /\ ParentSet(n) = ExactPredecessors(n)
            /\ (path_data[n].parents = <<>>) <=> (n = StartPos)
            /\ n \notin Ancestors(ParentSet(n), Cardinality(DOMAIN path_data))
            /\ n # StartPos =>
                StartPos \in Ancestors(ParentSet(n), Cardinality(DOMAIN path_data))

C19_Witness ==
    /\ mstate = "explored"
    /\ Cardinality(DOMAIN path_data) >= 12
    /\ \E n \in DOMAIN path_data :
        /\ Len(path_data[n].parents) = 2
        /\ n.address # maze_meta.start_address

\* what one pass of the inner loop at an Open neighbour does to path_data, by
\* the three cases of the cost offered against the cost recorded
RelaxStep ==
    (mstate = "exploring" /\ cur # None /\ adj # <<>> /\ OpenAt(Head(adj)[1].address)) =>
        LET n == Head(adj)[1]
            pos == cur[1].pos
            offered == cur[1].cost + Head(adj)[2]
        IN  /\ DOMAIN path_data' = DOMAIN path_data \cup {n}
            /\ \A q \in DOMAIN path_data \ {n} : path_data'[q] = path_data[q]
            /\ n \notin DOMAIN path_data => path_data'[n] = PathData(offered, <<pos>>)
            /\ n \in DOMAIN path_data =>
                /\ offered < path_data[n].cost =>
                    path_data'[n] = PathData(offered, <<pos>>)
                /\ offered = path_data[n].cost =>
                    path_data'[n] = PathData(offered, Append(path_data[n].parents, pos))
                /\ offered > path_data[n].cost => path_data'[n] = path_data[n]

\* the recorded cost of a visited position stays as it is
VisitedCostsFixed ==
    \A p \in visited : p \in DOMAIN path_data' /\ path_data'[p].cost = path_data[p].cost

\* every listed parent is a visited position with an edge to the position
\* that reaches it at its recorded cost
ParentsAtCost ==
    mstate = "exploring" =>
        \A n \in DOMAIN path_data : \A p \in ParentSet(n) :
            /\ p \in visited
            /\ \E e \in EdgesFrom(p) :
                e[1] = n /\ path_data[p].cost + e[2] = path_data[n].cost

\* C20: each relaxation of explore() lowers the cost and makes the relaxing
\* position the only parent when it offers less than the recorded cost,
\* appends the relaxing position when it offers the recorded cost, and leaves
\* the record alone when it offers more; in every state each listed parent
\* reaches its position at the recorded cost; the recorded cost of a visited
\* position never changes.
C20_Relaxation ==
    /\ []ParentsAtCost
    /\ [][RelaxStep /\ VisitedCostsFixed]_vars

\* a relaxation has just lowered a recorded cost: the position being worked on
\* is the only parent of n although a position visited before it offered n more
C20_Witness ==
    /\ mstate = "exploring"
    /\ cur # None
    /\ \E n \in DOMAIN path_data :
        /\ path_data[n].parents = <<cur[1].pos>>
        /\ \E p \in visited \ {cur[1].pos} : \E e \in EdgesFrom(p) :
            e[1] = n /\ path_data[p].cost + e[2] > path_data[n].cost

\* the cost D gives position p; D is a set of <<position, cost>>
CostIn(D, p) == (CHOOSE e \in D : e[1] = p)[2]

\* the positions from which one edge reaches p at the cost D gives p
OptimalPredecessors(D, p) ==
    {e[1] : e \in {f \in D : \E g \in EdgesFrom(f[1]) :
                        g[1] = p /\ f[2] + g[2] = CostIn(D, p)}}

\* the sets of tiles of the least-cost walks from the start position to p
RECURSIVE RoutesTo(_, _)
RoutesTo(D, p) ==
    IF p = StartPos THEN {{p.address}}
    ELSE UNION {{r \cup {p.address} : r \in RoutesTo(D, q)} :
                    q \in OptimalPredecessors(D, p)}

\* the sets of tiles of the minimum-cost routes from the start (facing East) to
\* the end address under any final heading
OptimalRoutes ==
    LET D == ShortestCosts
        at_end == {e \in D : e[1].address = maze_meta.end_address}
        goals == {e[1] : e \in {f \in at_end : \A g \in at_end : f[2] <= g[2]}}
    IN  UNION {RoutesTo(D, p) : p \in goals}

TraversedTiles ==
    {a \in AddressesOf(maze) : ~is_empty(TileAt(solution[1].grid, a).traversed)}

AltTraversedTiles ==
    {a \in AddressesOf(maze) : ~is_empty(TileAt(solution[1].grid, a).alt_traversed)}

\* C15: when the end is reachable, the tiles paint_solution marks in
\* alt_traversed are the tiles of the minimum-cost routes, all of them; the
\* tiles it marks in traversed are the tiles of one such route, and are among
\* the alt_traversed ones; spectator_spots is the number of tiles on the
\* minimum-cost routes.
C15_Painting ==
    mstate = "solved" =>
        LET routes == OptimalRoutes
        IN  routes # {} =>
                /\ AltTraversedTiles = UNION routes
                /\ TraversedTiles \in routes
                /\ TraversedTiles \subseteq AltTraversedTiles
                /\ solution[1].num_spots = Cardinality(UNION routes)

C15_Witness ==
    /\ mstate = "solved"
    /\ Cardinality(OptimalRoutes) = 2
    /\ Cardinality(TraversedTiles) = 5
    /\ Cardinality(AltTraversedTiles) = 8
    /\ solution[1].num_spots = 8

-----------------------------------------------------------------------------
(* puzzle10: the trail search over a height grid *)

\* the height at which a trail ends
TrailEnd == 9

Digits == 0 .. 9

\* TrailTile { height, is_on_trail: false, score: 0 } over the rows of the grid
TrailTiles(g) ==
    [y \in DOMAIN g |->
        [x \in DOMAIN g[y] |-> [height |-> g[y][x], is_on_trail |-> FALSE, score |-> 0]]]

climbs_any(neighbor_height, current_height) == neighbor_height > current_height

\* `neighbor_tile.height == current_height + 1` (a u8 sum; a height is a decimal
\* digit, and the sum is taken at heights below 9 only)
climbs(neighbor_height, current_height) == neighbor_height = current_height + 1

RECURSIVE find_trail(_, _, _, _)
RECURSIVE find_trail_deltas(_, _, _, _, _)

\* the loop of find_trail over GridDelta::CARDINALS, from its i-th delta on;
\* st is [map, visited, score]; the state after a pass is bound to `a` before
\* the next pass is taken, as the loop does
find_trail_deltas(current_height, current_addr, allow_merge, st, i) ==
    IF i > Len(CARDINALS) THEN st
    ELSE
        LET neighbor == checked_add(current_addr, CARDINALS[i])
            neighbor_tile == IF IsSome(neighbor) THEN get_at(st.map, neighbor[1]) ELSE None
            after ==
                IF IsSome(neighbor_tile) /\ climbs(neighbor_tile[1].height, current_height)
                THEN find_trail(neighbor_tile[1].height, neighbor[1], allow_merge, st)
                ELSE st
        IN  CHOOSE r \in {find_trail_deltas(current_height, current_addr, allow_merge, a, i + 1) :
                            a \in {after}} : TRUE

\* find_trail(): the tile is marked; without allow_merge a tile already visited
\* ends the search; a tile of height 9 scores
find_trail(current_height, current_addr, allow_merge, st) ==
    LET marked == [st EXCEPT
                    !.map[current_addr[2] + 1][current_addr[1] + 1].is_on_trail = TRUE]
    IN  IF ~allow_merge /\ current_addr \in st.visited THEN marked
        ELSE
            LET noted == IF allow_merge THEN marked
                         ELSE [marked EXCEPT !.visited = @ \cup {current_addr}]
            IN  IF TileAt(noted.map, current_addr).height = TrailEnd
                THEN [noted EXCEPT !.score = @ + 1]
                ELSE find_trail_deltas(current_height, current_addr, allow_merge, noted, 1)

\* height x + y at (x, y): every path that steps East or South climbs by one
SlopeLines == [y \in 1 .. 8 |-> [x \in 1 .. 3 |-> (x - 1) + (y - 1)]]

\* an 8 by 8 grid with 9 trailheads whose trails meet and part
HillLines ==
    << <<8, 9, 0, 1, 0, 1, 2, 3>>,
       <<7, 8, 1, 2, 1, 8, 7, 4>>,
       <<8, 7, 4, 3, 0, 9, 6, 5>>,
       <<9, 6, 5, 4, 9, 8, 7, 4>>,
       <<4, 5, 6, 7, 8, 9, 0, 3>>,
       <<3, 2, 0, 1, 9, 0, 1, 2>>,
       <<0, 1, 3, 2, 9, 8, 0, 1>>,
       <<1, 0, 4, 5, 6, 7, 3, 2>> >>

\* the grids of g with the height of one tile replaced
OneChanged(g) ==
    {[g EXCEPT ![y][x] = d] : y \in DOMAIN g, x \in DOMAIN g[1], d \in Digits}

\* the height grids run() is given: every grid of at most MaxTrailCells tiles,
\* the slope and its variants with one height changed, and the hill
TrailGrids ==
    UNION {[1 .. d[2] -> [1 .. d[1] -> Digits]] :
            d \in {e \in (1 .. MaxTrailCells) \X (1 .. MaxTrailCells) :
                        e[1] * e[2] <= MaxTrailCells}}
        \cup OneChanged(SlopeLines) \cup {HillLines}

\* the entry of score(&input_grid, false)
InitTrail ==
    /\ IdleButTrail
    /\ trail_input \in TrailGrids
    /\ trail_map = TrailTiles(trail_input)
    /\ trail_scan = 0
    /\ total_score = 0
    /\ scores = <<>>
    /\ tstate = "scoring"

\* the address score()'s raster scan visits after n others
TrailScanAddr(n) == <<n % width(trail_map), n \div width(trail_map)>>

TrailScanEnd == width(trail_map) * height(trail_map)

\* the `part2` argument of the call of score() in progress
Part2 == Len(scores) = 1

\* one pass of score()'s inner loop at a tile of height 0: find_trail runs to
\* its end, the tile takes the score and the total grows by it
TrailHead ==
    /\ tstate = "scoring"
    /\ trail_scan < TrailScanEnd
    /\ TileAt(trail_map, TrailScanAddr(trail_scan)).height = 0
    /\ LET addr == TrailScanAddr(trail_scan)
           st == find_trail(0, addr, Part2,
                            [map |-> trail_map, visited |-> {}, score |-> 0])
       IN  /\ trail_map' = [st.map EXCEPT ![addr[2] + 1][addr[1] + 1].score = st.score]
           /\ total_score' = total_score + st.score
    /\ trail_scan' = trail_scan + 1
    /\ UNCHANGED <<trail_input, scores, tstate, nonTrailVars>>

\* one pass of the inner loop at a tile of another height
TrailPass ==
    /\ tstate = "scoring"
    /\ trail_scan < TrailScanEnd
    /\ TileAt(trail_map, TrailScanAddr(trail_scan)).height # 0
    /\ trail_scan' = trail_scan + 1
    /\ UNCHANGED <<trail_input, trail_map, total_score, scores, tstate, nonTrailVars>>

\* score(&input_grid, false) returns and run() calls score(&input_grid, true)
ScorePart1 ==
    /\ tstate = "scoring"
    /\ trail_scan = TrailScanEnd
    /\ ~Part2
    /\ scores' = Append(scores, [score |-> total_score, grid |-> trail_map])
    /\ trail_map' = TrailTiles(trail_input)
    /\ trail_scan' = 0
    /\ total_score' = 0
    /\ UNCHANGED <<trail_input, tstate, nonTrailVars>>

\* score(&input_grid, true) returns and run() logs the two scores
ScorePart2 ==
    /\ tstate = "scoring"
    /\ trail_scan = TrailScanEnd
    /\ Part2
    /\ scores' = Append(scores, [score |-> total_score, grid |-> trail_map])
    /\ tstate' = "done"
    /\ UNCHANGED <<trail_input, trail_map, trail_scan, total_score, nonTrailVars>>

NextTrail ==
    \/ TrailHead
    \/ TrailPass
    \/ ScorePart1
    \/ ScorePart2

SpecTrail == InitTrail /\ [][NextTrail]_vars

-----------------------------------------------------------------------------
(* Claims about the trail search *)

TrailAddresses == AddressesOf(trail_input)

HeightAt(a) == trail_input[a[2] + 1][a[1] + 1]

\* the tiles one cardinal step from a that are exactly one higher
StepsUp(a) == {b \in TrailAddresses : Adjacent(a, b) /\ HeightAt(b) = HeightAt(a) + 1}

\* the tiles reached from those of S by k steps, each raising the height by 1
RECURSIVE Climb(_, _)
Climb(S, k) == IF k = 0 THEN S ELSE Climb(UNION {StepsUp(a) : a \in S}, k - 1)

\* the tiles of height 9 reachable from a tile of height 0
Summits(a) == Climb({a}, 9)

\* the number of paths from a to a tile of height 9, each step raising the
\* height by 1
RECURSIVE PathsUp(_)
RECURSIVE SumPathsUp(_)
SumPathsUp(S) ==
    IF S = {} THEN 0
    ELSE LET b == CHOOSE c \in S : TRUE IN PathsUp(b) + SumPathsUp(S \ {b})

PathsUp(a) == IF HeightAt(a) = 9 THEN 1 ELSE SumPathsUp(StepsUp(a))

Trailheads == {a \in TrailAddresses : HeightAt(a) = 0}

RECURSIVE SumSummits(_)
SumSummits(S) ==
    IF S = {} THEN 0
    ELSE LET a == CHOOSE c \in S : TRUE
         IN  Cardinality(Summits(a)) + SumSummits(S \ {a})

\* C21: score(grid, false) is the sum over the tiles of height 0 of the number
\* of distinct tiles of height 9 reachable by steps that each raise the height
\* by 1; score(grid, true) is the sum of the number of distinct such paths; the
\* first is at most the second.  Each trailhead tile carries its own count.
C21_Scores ==
    tstate = "done" =>
        /\ scores[1].score = SumSummits(Trailheads)
        /\ scores[2].score = SumPathsUp(Trailheads)
        /\ scores[1].score <= scores[2].score
        /\ \A a \in Trailheads :
            /\ TileAt(scores[1].grid, a).score = Cardinality(Summits(a))
            /\ TileAt(scores[2].grid, a).score = PathsUp(a)

C21_Witness ==
    /\ tstate = "done"
    /\ trail_input = HillLines
    /\ scores[1].score = 36
    /\ scores[2].score = 81

-----------------------------------------------------------------------------
\* puzzle06.rs: the guard's patrol

\* the cap of run_patrol() on the calls of advance(); 100000 in the code,
\* scaled down with the grids so that a patrol can reach it
MaxSteps == 10

\* the largest number of tiles of a grid the patrols are drawn from
MaxPatrolCells == 6

\* the largest number of tiles of a grid advance() is called on without the cap
MaxAdvanceCells == 3

\* enum TileState; `cardinals` is the CardinalSet of Traversed and the
\* default set for the other variants, which carry none
Obstacle == [kind |-> "Obstacle", cardinals |-> CardinalSet_default]
ArtificialObstacle == [kind |-> "ArtificialObstacle", cardinals |-> CardinalSet_default]
Empty == [kind |-> "Empty", cardinals |-> CardinalSet_default]
Traversed(cardinals) == [kind |-> "Traversed", cardinals |-> cardinals]

\* TileState::mark_traversed: the tile afterwards, or the panic
mark_traversed(tile, heading) ==
    CASE tile.kind = "Traversed" -> Ok(Traversed(add_assign(tile.cardinals, heading)))
      [] tile.kind = "Empty" -> Ok(Traversed(add_assign(CardinalSet_default, heading)))
      [] OTHER -> Panic

\* is_traversable with the artificial obstacle let through
is_traversable_artificial(tile) == tile.kind # "Obstacle"

\* TileState::is_traversable
is_traversable(tile) ==
    CASE tile.kind = "Traversed" -> TRUE
      [] tile.kind = "Empty" -> TRUE
      [] tile.kind = "Obstacle" -> FALSE
      [] tile.kind = "ArtificialObstacle" -> FALSE

\* TileState::is_traversed
is_traversed(tile) == tile.kind = "Traversed"

\* struct Guard
Guard(heading, pos) == [heading |-> heading, pos |-> pos]

\* next_guard_pos: Some(<<can_enter, x2, y2>>), or None off the grid
next_guard_pos(pos, heading, grid) ==
    LET d == into_isize(heading)
        x2 == checked_add_signed(pos[1], d[1])
        y2 == checked_add_signed(pos[2], d[2])
    IN  IF ~IsSome(x2) THEN None
        ELSE IF ~IsSome(y2) THEN None
        ELSE LET tile == get(grid, x2[1], y2[1])
             IN  IF ~IsSome(tile) THEN None
                 ELSE Some(<<is_traversable(tile[1]), x2[1], y2[1]>>)

\* the grid with mark_traversed applied to the tile at (x, y), or the panic
MarkAt(grid, x, y, heading) ==
    LET r == mark_traversed(grid[y + 1][x + 1], heading)
    IN  IF IsOk(r) THEN Ok([grid EXCEPT ![y + 1][x + 1] = r.val[1]]) ELSE Panic

\* struct PatrolState
PatrolState(grid, g, cs, dl) ==
    [grid |-> grid, guard |-> g, corners |-> cs, detected_loop |-> dl]

\* PatrolState::new
PatrolState_new(grid, g) == PatrolState(grid, Some(g), {}, FALSE)

\* the corner test answering for any corner at the same position
corner_seen_any_heading(cs, corner) == \E c \in cs : c.pos = corner.pos

\* the corner test of advance(): the guard was blocked here before
corner_seen(cs, corner) == corner \in cs

\* PatrolState::advance: the state afterwards, or the panic
advance(ps) ==
    IF ~IsSome(ps.guard) THEN Ok(ps)
    ELSE
    LET heading == ps.guard[1].heading
        x == ps.guard[1].pos[1]
        y == ps.guard[1].pos[2]
        next == next_guard_pos(<<x, y>>, heading, ps.grid)
    IN  IF IsSome(next)
        THEN IF next[1][1]
             THEN LET left == IF IsSome(get_mut(ps.grid, x, y))
                              THEN MarkAt(ps.grid, x, y, heading)
                              ELSE Ok(ps.grid)
                  IN  IF ~IsOk(left) THEN Panic
                      ELSE LET entered == MarkAt(left.val[1], next[1][2], next[1][3],
                                                 opposite(heading))
                           IN  IF ~IsOk(entered) THEN Panic
                               ELSE Ok([ps EXCEPT
                                        !.grid = entered.val[1],
                                        !.guard = Some(Guard(heading,
                                                    <<next[1][2], next[1][3]>>))])
             ELSE LET corner == Guard(heading, <<x, y>>)
                  IN  Ok([ps EXCEPT
                          !.detected_loop = IF corner_seen(ps.corners, corner)
                                            THEN TRUE ELSE @,
                          !.corners = IF corner_seen(ps.corners, corner)
                                      THEN @ ELSE @ \cup {corner},
                          !.guard = Some(Guard(turn_right(heading), <<x, y>>))])
        ELSE LET left == MarkAt(ps.grid, x, y, heading)
             IN  IF ~IsOk(left) THEN Panic
                 ELSE Ok([ps EXCEPT !.grid = left.val[1], !.guard = None])

\* the PatrolState of the patrol in progress
ThePatrol == PatrolState(patrol_grid, guard, corners, detected_loop)

\* the condition of run_patrol()'s while loop
patrol_continues(g, dl, n) == IsSome(g) /\ ~dl /\ n < MaxSteps

\* the result built without the test of detected_loop
patrol_outcome_no_loop(g, dl) == IF ~IsSome(g) THEN "WalkedOff" ELSE "Aborted"

\* the PatrolResult run_patrol() builds after the loop
patrol_outcome(g, dl) ==
    IF ~IsSome(g) THEN "WalkedOff"
    ELSE IF dl THEN "LoopDetected"
    ELSE "Aborted"

\* a closed circuit: the guard at (1, 1) turns at four obstacles for ever
CircuitLines ==
    << <<Empty, Obstacle, Empty, Empty>>,
       <<Empty, Empty, Empty, Obstacle>>,
       <<Obstacle, Empty, Empty, Empty>>,
       <<Empty, Empty, Obstacle, Empty>> >>

\* the grids with one empty tile made an artificial obstacle, as run() alters
\* the grid for part 2
Altered(g) ==
    {[g EXCEPT ![a[2] + 1][a[1] + 1] = ArtificialObstacle] :
        a \in {b \in AddressesOf(g) : TileAt(g, b) = Empty}}

\* the grids parse_input builds, at most n tiles, and the circuit
ParsedPatrolGrids(n) ==
    UNION {[1 .. d[2] -> [1 .. d[1] -> {Empty, Obstacle}]] :
            d \in {e \in (1 .. n) \X (1 .. n) : e[1] * e[2] <= n}}
        \cup {CircuitLines}

\* the grids run_patrol() is called with: parsed, or altered for part 2
PatrolGrids(n) ==
    ParsedPatrolGrids(n) \cup UNION {Altered(g) : g \in ParsedPatrolGrids(n)}

\* the guards parse_input can find in the grid that g was parsed to or altered
\* from: on a tile it pushed as Empty, which run() never alters
PatrolGuards(g) ==
    {Guard(h, <<x - 1, y - 1>>) :
        h \in Cardinal, x \in DOMAIN g[1], y \in DOMAIN g}

\* the entry of run_patrol(), after PatrolState::new, with a grid of at most
\* n tiles or the circuit
PatrolEntry(n) ==
    /\ IdleButPatrol
    /\ patrol_grid \in PatrolGrids(n)
    /\ \E g \in PatrolGuards(patrol_grid) :
        /\ patrol_grid[g.pos[2] + 1][g.pos[1] + 1] = Empty
        /\ guard = PatrolState_new(patrol_grid, g).guard
    /\ corners = {}
    /\ detected_loop = FALSE
    /\ num_steps = 0
    /\ patrol_result = None
    /\ pstate = "patrolling"
    /\ trodden = {}
    /\ blocked_at = {}

\* the history of one call of advance(): where the guard moved, where it turned
AdvanceHistory(after) ==
    /\ trodden' =
        IF after.guard = guard THEN trodden
        ELSE IF IsSome(after.guard) /\ after.guard[1].pos = guard[1].pos THEN trodden
        ELSE trodden \cup {guard[1].pos}
                \cup (IF IsSome(after.guard) THEN {after.guard[1].pos} ELSE {})
    /\ blocked_at' =
        IF IsSome(after.guard) /\ after.guard[1].pos = guard[1].pos
        THEN blocked_at \cup {guard[1]}
        ELSE blocked_at

\* the effect of one call of advance() on the patrol's state
AdvanceEffect ==
    LET r == advance(ThePatrol)
    IN  IF IsOk(r)
        THEN /\ patrol_grid' = r.val[1].grid
             /\ guard' = r.val[1].guard
             /\ corners' = r.val[1].corners
             /\ detected_loop' = r.val[1].detected_loop
             /\ AdvanceHistory(r.val[1])
             /\ UNCHANGED pstate
        ELSE /\ pstate' = "panicked"
             /\ UNCHANGED <<patrol_grid, guard, corners, detected_loop,
                            trodden, blocked_at>>

InitPatrol == PatrolEntry(MaxPatrolCells)

\* one pass of run_patrol()'s loop
PatrolStep ==
    /\ pstate = "patrolling"
    /\ patrol_continues(guard, detected_loop, num_steps)
    /\ num_steps' = num_steps + 1
    /\ AdvanceEffect
    /\ UNCHANGED <<patrol_result, nonPatrolVars>>

\* the loop of run_patrol() ends and the result is built
PatrolReturn ==
    /\ pstate = "patrolling"
    /\ ~patrol_continues(guard, detected_loop, num_steps)
    /\ patrol_result' = Some(patrol_outcome(guard, detected_loop))
    /\ pstate' = "returned"
    /\ UNCHANGED <<patrol_grid, guard, corners, detected_loop, num_steps,
                   trodden, blocked_at, nonPatrolVars>>

NextPatrol ==
    \/ PatrolStep
    \/ PatrolReturn

SpecPatrol == InitPatrol /\ [][NextPatrol]_vars

\* advance() called for as long as the guard is on the grid and no loop is
\* detected, without run_patrol()'s cap on the calls
AdvanceCall ==
    /\ pstate = "patrolling"
    /\ IsSome(guard)
    /\ ~detected_loop
    /\ AdvanceEffect
    /\ UNCHANGED <<num_steps, patrol_result, nonPatrolVars>>

InitAdvance == PatrolEntry(MaxAdvanceCells)

\* every call returns, so the next one is made
SpecAdvance == InitAdvance /\ [][AdvanceCall]_vars /\ WF_vars(AdvanceCall)

-----------------------------------------------------------------------------
\* Claims about puzzle06.rs

\* C22: run_patrol() makes at most MaxSteps calls of advance() and its loop
\* ends once it has made that many; what it returns is WalkedOff
\* exactly when the guard is off the grid, LoopDetected exactly when the guard
\* is on the grid and detected_loop is set, and Aborted exactly when the cap
\* was reached with the guard on the grid and detected_loop not set.
C22_PatrolResult ==
    /\ num_steps <= MaxSteps
    /\ num_steps = MaxSteps => ~patrol_continues(guard, detected_loop, num_steps)
    /\ pstate = "returned" =>
        /\ IsSome(patrol_result)
        /\ patrol_result[1] \in {"WalkedOff", "LoopDetected", "Aborted"}
        /\ patrol_result[1] = "WalkedOff" <=> ~IsSome(guard)
        /\ patrol_result[1] = "LoopDetected" <=> IsSome(guard) /\ detected_loop
        /\ patrol_result[1] = "Aborted" <=>
            num_steps = MaxSteps /\ IsSome(guard) /\ ~detected_loop

\* a patrol of the circuit was aborted at the cap
C22_Witness ==
    /\ pstate = "returned"
    /\ patrol_result = Some("Aborted")
    /\ num_steps = MaxSteps
    /\ corners # {}

\* a patrol returned LoopDetected after the guard had moved
C22_LoopSeen ==
    pstate = "returned" /\ patrol_result = Some("LoopDetected") /\ trodden # {}

\* a patrol returned WalkedOff after the guard had turned
C22_WalkedOffSeen ==
    pstate = "returned" /\ patrol_result = Some("WalkedOff") /\ corners # {}

\* the tile at addr is one the guard cannot stand on
Blocks(g, addr) ==
    TileAt(g, addr).kind \in {"Obstacle", "ArtificialObstacle"}

\* a quarter turn clockwise, by name
Clockwise(d) ==
    CASE d = "North" -> "East"
      [] d = "East" -> "South"
      [] d = "South" -> "West"
      [] d = "West" -> "North"

\* whether a guard at pos with heading d, walking by the rules (straight on,
\* a quarter turn clockwise in front of an obstacle), ever leaves the grid g;
\* `before` holds the (pos, d) pairs the walk has been at
RECURSIVE WalksOff(_, _, _, _)
WalksOff(g, pos, d, before) ==
    IF <<pos, d>> \in before THEN FALSE
    ELSE IF Toward(pos, d) \notin AddressesOf(g) THEN TRUE
    ELSE IF Blocks(g, Toward(pos, d))
         THEN WalksOff(g, pos, Clockwise(d), before \cup {<<pos, d>>})
         ELSE WalksOff(g, Toward(pos, d), d, before \cup {<<pos, d>>})

\* the guard of the patrol, from where it is now, never leaves the grid
NeverLeaves ==
    IsSome(guard) /\ ~WalksOff(patrol_grid, guard[1].pos, guard[1].heading, {})

\* the positions of the tiles in state Traversed
TraversedPositions ==
    {a \in AddressesOf(patrol_grid) : TileAt(patrol_grid, a).kind = "Traversed"}

\* C25, the states: a detected loop is a patrol that never leaves; the guard
\* never stands on an obstacle and mark_traversed never panics; every guard
\* recorded as blocked had an obstacle ahead, and the corners are those guards;
\* the Traversed tiles are exactly the tiles the guard moved from or into.
C25_PatrolInv ==
    /\ detected_loop => NeverLeaves
    /\ pstate # "panicked"
    /\ IsSome(guard) =>
        /\ guard[1].pos \in AddressesOf(patrol_grid)
        /\ ~Blocks(patrol_grid, guard[1].pos)
    /\ \A g \in blocked_at :
        /\ Toward(g.pos, g.heading) \in AddressesOf(patrol_grid)
        /\ Blocks(patrol_grid, Toward(g.pos, g.heading))
    /\ corners = blocked_at
    /\ TraversedPositions = trodden

\* C25, the steps: detected_loop is set only by a call of advance() that finds
\* the guard blocked at a position and heading at which it was blocked before.
C25_SetWhenBlockedAgain ==
    (~detected_loop /\ detected_loop') =>
        /\ IsSome(guard)
        /\ guard[1] \in blocked_at
        /\ Toward(guard[1].pos, guard[1].heading) \in AddressesOf(patrol_grid)
        /\ Blocks(patrol_grid, Toward(guard[1].pos, guard[1].heading))

\* C25: detected_loop is set only when the guard is blocked where it was
\* blocked before with the same heading, and then the guard never leaves the
\* grid; a guard that never leaves the grid is eventually detected as looping
\* when advance() is called without a cap; the guard never stands on an
\* obstacle, so mark_traversed never panics; the Traversed tiles are exactly
\* the tiles the guard has moved from or into.
C25_LoopDetection ==
    /\ []C25_PatrolInv
    /\ [][C25_SetWhenBlockedAgain]_vars
    /\ (NeverLeaves ~> detected_loop)

\* a loop was detected on a walk around the circuit, with tiles traversed
C25_Witness ==
    /\ detected_loop
    /\ Cardinality(blocked_at) >= 4
    /\ Cardinality(trodden) >= 4
    /\ TraversedPositions = trodden

-----------------------------------------------------------------------------
\* puzzle17.rs: the three-register machine and the search for register A
\*
\* Registers are u64 in the code and natural numbers here: with programs of at
\* most 5 operations no register and no candidate reaches 2^30, so no
\* arithmetic of the model wraps; a shift by 64 or more is a u64 overflow and
\* is modelled as one.

\* the largest number of operations of a program drawn from the whole family
MaxOps == 3

\* the width of a register
U64Bits == 64

\* a ^ b on natural numbers
RECURSIVE bitxor(_, _)
bitxor(a, b) ==
    IF a = 0 /\ b = 0 THEN 0
    ELSE (((a % 2) + (b % 2)) % 2) + 2 * bitxor(a \div 2, b \div 2)

\* a | b on natural numbers
RECURSIVE bitor(_, _)
bitor(a, b) ==
    IF a = 0 /\ b = 0 THEN 0
    ELSE (IF a % 2 = 1 \/ b % 2 = 1 THEN 1 ELSE 0) + 2 * bitor(a \div 2, b \div 2)

\* a >> s for a shift s the register width allows; a register of the model is
\* below 2^30
shr_bits(a, s) == IF s >= 30 THEN 0 ELSE a \div Pow2(s)

\* `a >> v` of two u64: a shift by the width or more panics in a debug build
\* and shifts by v modulo the width in a release build
shr(a, v, build) ==
    IF v >= U64Bits
    THEN IF build = "debug" THEN Panic ELSE Ok(shr_bits(a, v % U64Bits))
    ELSE Ok(shr_bits(a, v))

\* struct Machine
Machine(a, b, c) == [a |-> a, b |-> b, c |-> c]

\* ComboOperand::try_from then get_value, for the operand values 0 .. 6
get_value(operand, m) ==
    CASE operand \in 0 .. 3 -> operand
      [] operand = 4 -> m.a
      [] operand = 5 -> m.b
      [] operand = 6 -> m.c

\* enum Step
Continue == [kind |-> "Continue", value |-> 0]
JumpTo(address) == [kind |-> "JumpTo", value |-> address]
Output(n) == [kind |-> "Output", value |-> n]

\* Op::try_from((opcode, operand)), for the pairs it accepts: the variant and
\* the operand it keeps (Bxc keeps none)
Op_try_from(pair) ==
    [kind |-> CASE pair[1] = 0 -> "Adv" [] pair[1] = 1 -> "Bxl"
                [] pair[1] = 2 -> "Bst" [] pair[1] = 3 -> "Jnz"
                [] pair[1] = 4 -> "Bxc" [] pair[1] = 5 -> "Out"
                [] pair[1] = 6 -> "Bdv" [] pair[1] = 7 -> "Cdv",
     operand |-> IF pair[1] = 4 THEN 0 ELSE pair[2]]

\* the pairs Op::try_from accepts: a combo operand is at most 6
Op_accepts(pair) ==
    /\ pair[1] \in 0 .. 7
    /\ pair[2] \in 0 .. 7
    /\ pair[1] \in {0, 2, 5, 6, 7} => pair[2] <= 6

\* the loop of parse_input that pairs the opcodes with their operands
ParseOps(raw) == [i \in 1 .. Len(raw) \div 2 |-> Op_try_from(<<raw[2 * i - 1], raw[2 * i]>>)]

\* Op::run: the machine afterwards and the Step, or the panic of a shift
Op_run(self, m, build) ==
    CASE self.kind = "Adv" ->
            LET r == shr(m.a, get_value(self.operand, m), build)
            IN  IF IsOk(r) THEN Ok([machine |-> [m EXCEPT !.a = r.val[1]], step |-> Continue])
                ELSE Panic
      [] self.kind = "Bxl" ->
            Ok([machine |-> [m EXCEPT !.b = bitxor(m.b, self.operand)], step |-> Continue])
      [] self.kind = "Bst" ->
            Ok([machine |-> [m EXCEPT !.b = get_value(self.operand, m) % 8], step |-> Continue])
      [] self.kind = "Jnz" ->
            Ok([machine |-> m,
                step |-> IF m.a = 0 THEN Continue ELSE JumpTo(self.operand)])
      [] self.kind = "Bxc" ->
            Ok([machine |-> [m EXCEPT !.b = bitxor(m.b, m.c)], step |-> Continue])
      [] self.kind = "Out" ->
            Ok([machine |-> m, step |-> Output(get_value(self.operand, m) % 8)])
      [] self.kind = "Bdv" ->
            LET r == shr(m.a, get_value(self.operand, m), build)
            IN  IF IsOk(r) THEN Ok([machine |-> [m EXCEPT !.b = r.val[1]], step |-> Continue])
                ELSE Panic
      [] self.kind = "Cdv" ->
            LET r == shr(m.a, get_value(self.operand, m), build)
            IN  IF IsOk(r) THEN Ok([machine |-> [m EXCEPT !.c = r.val[1]], step |-> Continue])
                ELSE Panic

\* run_single from the given pointer (0-based): <<machine, out>> or the panic
RECURSIVE run_single_from(_, _, _, _, _)
run_single_from(m, ops, ptr, outs, build) ==
    IF ~(ptr < Len(ops)) THEN Ok(<<m, outs>>)
    ELSE LET r == Op_run(ops[ptr + 1], m, build)
         IN  IF ~IsOk(r) THEN Panic
             ELSE run_single_from(r.val[1].machine, ops, ptr + 1,
                    IF r.val[1].step.kind = "Output"
                    THEN Append(outs, r.val[1].step.value) ELSE outs,
                    build)

\* run_single
run_single(m, ops, build) == run_single_from(m, ops, 0, <<>>, build)

\* test_input_output: Ok(bool) or the panic
test_input_output(init_a, program, expected_output, build) ==
    LET r == run_single(Machine(init_a, 0, 0), program, build)
    IN  IF ~IsOk(r) THEN Panic
        ELSE Ok(Len(r.val[1][2]) = 1 /\ r.val[1][2][1] = expected_output)

\* the candidate reverse_engineer builds from accum and n
candidate_of(accum, n) == bitor(accum * 8, n)

\* what `for n in 0..8` of reverse_engineer returns, given what each pass comes
\* to: that of the first pass that is not Ok(None), or Ok(None) after the last
first_returning(results) ==
    LET returning == {n \in DOMAIN results : results[n] # Ok(None)}
    IN  IF returning = {} THEN Ok(None)
        ELSE results[MinOf(returning)]

\* reverse_engineer: Ok(Option<u64>) or the panic. `tried(n)` is what the pass
\* of `for n in 0..8` at n comes to: the panic of the test, Ok(None) when the
\* test fails or the recursive call finds nothing, else the answer of the
\* recursive call; the loop returns at the first pass that is not Ok(None)
RECURSIVE reverse_engineer(_, _, _, _)
reverse_engineer(program, expected_output, accum, build) ==
    IF expected_output = <<>> THEN Ok(Some(accum))
    ELSE LET last_output == expected_output[Len(expected_output)]
             tried(n) ==
                LET candidate == candidate_of(accum, n)
                    t == test_input_output(candidate, program, last_output, build)
                IN  IF ~IsOk(t) THEN Panic
                    ELSE IF t.val[1]
                    THEN reverse_engineer(program,
                            SubSeq(expected_output, 1, Len(expected_output) - 1),
                            candidate, build)
                    ELSE Ok(None)
         IN  CHOOSE r \in {first_returning(results) :
                            results \in {<<tried(0), tried(1), tried(2), tried(3),
                                           tried(4), tried(5), tried(6), tried(7)>>}} : TRUE

\* the registers an operation reads besides A, and the one it writes
ReadsOf(self) ==
    (IF self.kind \in {"Adv", "Bst", "Out", "Bdv", "Cdv"}
     THEN (IF self.operand = 5 THEN {"b"} ELSE IF self.operand = 6 THEN {"c"} ELSE {})
     ELSE {})
    \cup (IF self.kind = "Bxl" THEN {"b"} ELSE {})
    \cup (IF self.kind = "Bxc" THEN {"b", "c"} ELSE {})

WritesOf(self) ==
    IF self.kind \in {"Bxl", "Bst", "Bxc", "Bdv"} THEN {"b"}
    ELSE IF self.kind = "Cdv" THEN {"c"}
    ELSE {}

\* the registers among B and C written by the first n operations
SetBefore(ops, n) == UNION {WritesOf(ops[i]) : i \in 1 .. n}

\* the assumptions documented at reverse_engineer: the program is a loop that
\* ends with `jnz 0` and jumps nowhere else, shifts A right by 3 once in each
\* iteration and changes A in no other way, outputs once in each iteration, and
\* reads B and C only after it has set them in the same iteration
Assumed(ops) ==
    /\ Len(ops) >= 1
    /\ ops[Len(ops)] = [kind |-> "Jnz", operand |-> 0]
    /\ \A i \in 1 .. Len(ops) - 1 : ops[i].kind # "Jnz"
    /\ Cardinality({i \in DOMAIN ops : ops[i].kind = "Adv"}) = 1
    /\ \A i \in DOMAIN ops : ops[i].kind = "Adv" => ops[i].operand = 3
    /\ Cardinality({i \in DOMAIN ops : ops[i].kind = "Out"}) = 1
    /\ \A i \in DOMAIN ops : ReadsOf(ops[i]) \subseteq SetBefore(ops, i - 1)

\* the opcode and operand pairs Op::try_from accepts for an operation that is
\* neither adv nor out nor jnz
FillerPairs == {p \in (0 .. 7) \X (0 .. 7) : Op_accepts(p) /\ p[1] \notin {0, 3, 5}}

\* the bodies of n operations with one `adv 3` and one out
Bodies(n) ==
    UNION {{[p \in 1 .. n |-> IF p = at[1] THEN <<0, 3>>
                             ELSE IF p = at[2] THEN <<5, operand>>
                             ELSE f[p]] :
                operand \in 0 .. 6, f \in [(1 .. n) \ {at[1], at[2]} -> FillerPairs]} :
            at \in {e \in (1 .. n) \X (1 .. n) : e[1] # e[2]}}

\* the raw program of a sequence of pairs
RECURSIVE Flatten(_)
Flatten(pairs) ==
    IF pairs = <<>> THEN <<>>
    ELSE <<pairs[1][1], pairs[1][2]>> \o Flatten(Tail(pairs))

\* bst A, bxl 3, out B, adv 3, jnz 0
XorProgram == <<2, 4, 1, 3, 5, 5, 0, 3, 3, 0>>

\* the raw programs run() is given: those of at most n operations that meet
\* the assumptions, and a longer one
RawPrograms(n) ==
    {raw \in UNION {{Flatten(body \o << <<3, 0>> >>) : body \in Bodies(k)} :
                        k \in 2 .. n - 1} :
        Assumed(ParseOps(raw))}
    \cup {XorProgram}

\* the machines parse_input reads
InputMachines == {Machine(0, 0, 0), Machine(10, 5, 3)}

\* run() after parse_input, at the entry of the first run_full
InitVm ==
    /\ IdleButVm
    /\ raw_program \in RawPrograms(MaxOps)
    /\ vm_input \in InputMachines
    /\ vm_build \in Builds
    /\ machine = vm_input
    /\ pointer = 0
    /\ vm_out = <<>>
    /\ part1_out = <<>>
    /\ seed_a = None
    /\ vstate = "part1"

ops == ParseOps(raw_program)

\* one pass of run_full()'s loop
VmStep ==
    /\ vstate \in {"part1", "verify"}
    /\ pointer < Len(ops)
    /\ LET r == Op_run(ops[pointer + 1], machine, vm_build)
       IN  IF IsOk(r)
           THEN /\ machine' = r.val[1].machine
                /\ vm_out' = IF r.val[1].step.kind = "Output"
                             THEN Append(vm_out, r.val[1].step.value) ELSE vm_out
                /\ pointer' = IF r.val[1].step.kind = "JumpTo"
                              THEN r.val[1].step.value \div 2 ELSE pointer + 1
                /\ UNCHANGED vstate
           ELSE /\ vstate' = "panicked"
                /\ UNCHANGED <<machine, vm_out, pointer>>
    /\ UNCHANGED <<raw_program, vm_input, vm_build, part1_out, seed_a, nonVmVars>>

\* the part 1 run ends; reverse_engineer is called and, on Some, the second
\* run_full is entered with its result in register A
VmReverse ==
    /\ vstate = "part1"
    /\ ~(pointer < Len(ops))
    /\ part1_out' = vm_out
    /\ LET r == reverse_engineer(ops, raw_program, 0, vm_build)
       IN  IF ~IsOk(r)
           THEN /\ vstate' = "panicked"
                /\ UNCHANGED <<seed_a, machine, pointer, vm_out>>
           ELSE IF ~IsSome(r.val[1])
           THEN /\ vstate' = "failed"
                /\ UNCHANGED <<seed_a, machine, pointer, vm_out>>
           ELSE /\ seed_a' = r.val[1]
                /\ machine' = [vm_input EXCEPT !.a = r.val[1][1]]
                /\ pointer' = 0
                /\ vm_out' = <<>>
                /\ vstate' = "verify"
    /\ UNCHANGED <<raw_program, vm_input, vm_build, nonVmVars>>

\* the second run_full ends and run() asserts that it printed the program
VmAssert ==
    /\ vstate = "verify"
    /\ ~(pointer < Len(ops))
    /\ vstate' = IF vm_out = raw_program THEN "done" ELSE "panicked"
    /\ UNCHANGED <<raw_program, vm_input, vm_build, machine, pointer, vm_out,
                   part1_out, seed_a, nonVmVars>>

NextVm ==
    \/ VmStep
    \/ VmReverse
    \/ VmAssert

SpecVm == InitVm /\ [][NextVm]_vars

-----------------------------------------------------------------------------
\* Claims about puzzle17.rs

\* C23: for a program that meets the assumptions documented at
\* reverse_engineer, whenever reverse_engineer(ops, raw_program, 0) returned
\* Some(a), the run_full started with A = a has, at its end, output exactly
\* raw_program.
C23_Original ==
    (IsSome(seed_a) /\ vstate \in {"verify", "done", "panicked"}
            /\ ~(pointer < Len(ops))) =>
        vm_out = raw_program

\* reverse_engineer returned an A whose run printed the program, and run()'s
\* assertion passed
C23_Reproduced ==
    /\ vstate = "done"
    /\ IsSome(seed_a)
    /\ vm_out = raw_program
    /\ Len(raw_program) >= 6

\* `out A, adv 3, jnz 0`: reverse_engineer returned an A with a leading zero
\* digit, the run stopped one output short, and run()'s assertion failed
C23_Witness ==
    /\ vstate = "panicked"
    /\ raw_program = <<5, 4, 0, 3, 3, 0>>
    /\ seed_a = Some(13861)
    /\ vm_out = <<5, 4, 0, 3, 3>>

-----------------------------------------------------------------------------
\* 2023 puzzle05.rs: the almanac's maps and their merge
\*
\* Numbers are u64 in the code and natural numbers here. No subtraction of the
\* code can go below zero: a Left(n) shift belongs to a mapping whose start is
\* at least n, and maybe_invert tests the output range before it subtracts.

\* the largest source or destination start of a line of the input
MaxStart == 3

\* the largest width of a line of the input
MaxWidth == 2

\* the largest seed
MaxSeed == 7

\* enum Shift
Left(n) == [dir |-> "Left", n |-> n]
Right(n) == [dir |-> "Right", n |-> n]

\* Shift::from_diff
from_diff(start, end) ==
    IF start = end THEN Right(0)
    ELSE IF start < end THEN Right(end - start)
    ELSE Left(start - end)

\* impl Add<Shift> for u64
add_shift(self, rhs) == IF rhs.dir = "Left" THEN self - rhs.n ELSE self + rhs.n

\* impl Sub<Shift> for u64
sub_shift(self, rhs) == IF rhs.dir = "Left" THEN self + rhs.n ELSE self - rhs.n

\* struct Mapping
Mapping(start, w, shift) == [start |-> start, width |-> w, shift |-> shift]

\* Mapping::try_from(line) for a line of three numbers
Mapping_try_from(line) == Mapping(line[2], line[3], from_diff(line[2], line[1]))

input_start(m) == m.start
input_end(m) == m.start + m.width
output_start(m) == add_shift(m.start, m.shift)
output_end(m) == add_shift(input_end(m), m.shift)

\* Mapping::maybe_translate
maybe_translate(m, input) ==
    IF input >= input_start(m) /\ input < input_end(m)
    THEN Some(add_shift(input, m.shift))
    ELSE None

\* Mapping::maybe_invert
maybe_invert(m, output) ==
    IF output >= output_start(m) /\ output < output_end(m)
    THEN Some(sub_shift(output, m.shift))
    ELSE None

\* the index of the first mapping for which f is Some, or 0
FirstSome(mappings, f(_)) ==
    LET hits == {i \in DOMAIN mappings : IsSome(f(mappings[i]))}
    IN  IF hits = {} THEN 0 ELSE MinOf(hits)

\* Mappings::translate
translate(mappings, input) ==
    LET f(m) == maybe_translate(m, input)
        i == FirstSome(mappings, f)
    IN  IF i = 0 THEN input ELSE f(mappings[i])[1]

\* Mappings::invert
invert(mappings, output) ==
    LET f(m) == maybe_invert(m, output)
        i == FirstSome(mappings, f)
    IN  IF i = 0 THEN output ELSE f(mappings[i])[1]

\* sort_by_key(|m| m.start), a stable sort: m goes after the mappings that
\* start no later
RECURSIVE InsertByStart(_, _)
InsertByStart(sorted, m) ==
    IF sorted = <<>> THEN <<m>>
    ELSE IF sorted[Len(sorted)].start <= m.start THEN Append(sorted, m)
    ELSE Append(InsertByStart(SubSeq(sorted, 1, Len(sorted) - 1), m), sorted[Len(sorted)])

RECURSIVE sort_by_start(_)
sort_by_start(mappings) ==
    IF mappings = <<>> THEN <<>>
    ELSE InsertByStart(sort_by_start(SubSeq(mappings, 1, Len(mappings) - 1)),
                       mappings[Len(mappings)])

\* Mappings::new, without the header
Mappings_new(mappings) == sort_by_start(mappings)

\* the elements of a BTreeSet<u64> in iteration order
RECURSIVE Ascending(_)
Ascending(S) ==
    IF S = {} THEN <<>> ELSE <<MinOf(S)>> \o Ascending(S \ {MinOf(S)})

\* Mappings::merge, without the headers
merge(step1, step2) ==
    LET boundaries ==
            UNION {{input_start(step1[i]), input_end(step1[i])} : i \in DOMAIN step1}
            \cup UNION {{invert(step1, input_start(step2[i])),
                         invert(step1, input_end(step2[i]))} : i \in DOMAIN step2}
        boundary_itr == Ascending(boundaries)
        outs == [k \in 1 .. Len(boundary_itr) - 1 |->
                    LET start == boundary_itr[k]
                        end == boundary_itr[k + 1]
                        translated == translate(step2, translate(step1, start))
                    IN  Mapping(start, end - start, from_diff(start, translated))]
    IN  Mappings_new(outs)

\* the lines of one map of the input: at most one line of small numbers
MapLines ==
    {<<>>} \cup {<<l>> : l \in (0 .. MaxStart) \X (0 .. MaxStart) \X (0 .. MaxWidth)}

\* two maps of two lines each that exchange and shift small ranges, the lines
\* not in the order of their source starts
SwapLines == << <<0, 2, 2>>, <<2, 0, 2>> >>
ShiftLines == << <<5, 3, 2>>, <<0, 1, 2>> >>

\* what parse_maps builds of the lines of a map
ParsedMap(lines) == Mappings_new([i \in DOMAIN lines |-> Mapping_try_from(lines[i])])

\* run() after parse_maps: two maps
InitAlmanac ==
    /\ IdleButAlmanac
    /\ \E l1, l2 \in MapLines \cup {SwapLines, ShiftLines} :
        alm_maps = <<ParsedMap(l1), ParsedMap(l2)>>
    /\ final_merged = None
    /\ alm_seed = None
    /\ alm_output = None
    /\ astate = "parsed"

\* the reduce of run(): one call of Mappings::merge
AlmMerge ==
    /\ astate = "parsed"
    /\ final_merged' = Some(merge(alm_maps[1], alm_maps[2]))
    /\ astate' = "merged"
    /\ UNCHANGED <<alm_maps, alm_seed, alm_output, nonAlmanacVars>>

\* final_merged.translate(*seed) for one seed of the input
AlmTranslate ==
    /\ astate = "merged"
    /\ \E seed \in 0 .. MaxSeed :
        /\ alm_seed' = Some(seed)
        /\ alm_output' = Some(translate(final_merged[1], seed))
    /\ astate' = "translated"
    /\ UNCHANGED <<alm_maps, final_merged, nonAlmanacVars>>

NextAlmanac ==
    \/ AlmMerge
    \/ AlmTranslate

SpecAlmanac == InitAlmanac /\ [][NextAlmanac]_vars

-----------------------------------------------------------------------------
\* Claims about 2023 puzzle05.rs

\* C24: the merged map translates every input as the second map translates
\* what the first map translates it to.
C24_Original ==
    astate = "translated" =>
        alm_output[1] = translate(alm_maps[2], translate(alm_maps[1], alm_seed[1]))

\* the first map sends [0, 2) onto [2, 4) and the second sends 3 to 0: the
\* merged map leaves 3 where it is, the two maps in turn send it to 0
C24_Witness ==
    /\ astate = "translated"
    /\ alm_maps = <<ParsedMap(<< <<2, 0, 2>> >>), ParsedMap(<< <<0, 3, 1>> >>)>>
    /\ alm_seed = Some(3)
    /\ alm_output = Some(3)
    /\ translate(alm_maps[2], translate(alm_maps[1], 3)) = 0

\* a merged map of four mappings agrees with the two maps in turn on its seed
C24_Agrees ==
    /\ astate = "translated"
    /\ Len(final_merged[1]) >= 4
    /\ alm_output[1] = translate(alm_maps[2], translate(alm_maps[1], alm_seed[1]))
    /\ alm_output # alm_seed

-----------------------------------------------------------------------------
\* puzzle15.rs: the robot that pushes boxes around a warehouse
\*
\* A Tile is the name of its variant. A widened warehouse in which a box can
\* stand at an odd column is at least 10 tiles wide, so the addresses of this
\* puzzle are WarehouseBits wide.

\* the width of a usize in the warehouse
WarehouseBits == 4

\* the largest number of instructions of the input
MaxMoves == 9

\* the largest number of tiles inside the walls of a warehouse drawn from the
\* whole family
MaxFloor == 3

Tile == {"Wall", "Box", "BoxLeft", "BoxRight", "Robot", "Empty"}

\* Tile::fatten, for the tiles from_char builds
fatten(tile) ==
    CASE tile = "Wall" -> <<"Wall", "Wall">>
      [] tile = "Box" -> <<"BoxLeft", "BoxRight">>
      [] tile = "Robot" -> <<"Robot", "Empty">>
      [] tile = "Empty" -> <<"Empty", "Empty">>

\* GridAddress::checked_add on a usize of WarehouseBits bits
checked_add_wide(addr, delta) ==
    LET fits(v) == v >= 0 /\ v <= Pow2(WarehouseBits) - 1
    IN  IF fits(addr[1] + delta[1]) /\ fits(addr[2] + delta[2])
        THEN Some(<<addr[1] + delta[1], addr[2] + delta[2]>>)
        ELSE None

\* Option::into_iter().collect()
OptionSeq(o) == IF IsSome(o) THEN <<o[1]>> ELSE <<>>

\* find_displaced_when_pushed for a wide box taken for a single tile
find_displaced_single(addr, direction, grid) ==
    LET this_tile == index(grid, addr)
    IN  IF ~IsOk(this_tile) THEN Panic
        ELSE IF Val(this_tile) \in {"Empty", "Wall"} THEN Panic
        ELSE Ok(OptionSeq(checked_add_wide(addr, into_GridDelta(direction))))

\* find_displaced_when_pushed: Ok(the Vec<GridAddress>) or the panic
find_displaced_when_pushed(addr, direction, grid) ==
    LET this_tile == index(grid, addr)
        and_then(o) == IF IsSome(o)
                       THEN checked_add_wide(o[1], into_GridDelta(direction))
                       ELSE None
    IN  IF ~IsOk(this_tile) THEN Panic
        ELSE CASE Val(this_tile) = "Empty" -> Panic
               [] Val(this_tile) = "Wall" -> Panic
               [] Val(this_tile) \in {"Box", "Robot"} ->
                    Ok(OptionSeq(checked_add_wide(addr, into_GridDelta(direction))))
               [] Val(this_tile) \in {"BoxLeft", "BoxRight"}
                        /\ direction \in {"East", "West"} ->
                    Ok(OptionSeq(checked_add_wide(addr, into_GridDelta(direction))))
               [] Val(this_tile) = "BoxLeft" /\ direction \notin {"East", "West"} ->
                    LET left_displaced == checked_add_wide(addr, into_GridDelta(direction))
                        right_displaced ==
                            and_then(checked_add_wide(addr, into_GridDelta("East")))
                    IN  Ok(OptionSeq(left_displaced) \o OptionSeq(right_displaced))
               [] Val(this_tile) = "BoxRight" /\ direction \notin {"East", "West"} ->
                    LET left_displaced ==
                            and_then(checked_add_wide(addr, into_GridDelta("West")))
                        right_displaced == checked_add_wide(addr, into_GridDelta(direction))
                    IN  Ok(OptionSeq(left_displaced) \o OptionSeq(right_displaced))

\* can_displace_tile answering that every tile can be displaced
can_displace_always(addr, direction, grid) == Ok(TRUE)

\* can_displace_tile: Ok(bool) or the panic; `all` stops at the first tile
\* that cannot be displaced
RECURSIVE can_displace_tile(_, _, _)
RECURSIVE can_displace_all(_, _, _, _)
can_displace_all(list, i, direction, grid) ==
    IF i > Len(list) THEN Ok(TRUE)
    ELSE LET r == can_displace_tile(list[i], direction, grid)
         IN  IF ~IsOk(r) THEN Panic
             ELSE IF ~Val(r) THEN Ok(FALSE)
             ELSE can_displace_all(list, i + 1, direction, grid)

can_displace_tile(addr, direction, grid) ==
    LET this_tile == index(grid, addr)
    IN  IF ~IsOk(this_tile) THEN Panic
        ELSE IF Val(this_tile) = "Wall" THEN Ok(FALSE)
        ELSE IF Val(this_tile) = "Empty" THEN Ok(TRUE)
        ELSE LET found == find_displaced_when_pushed(addr, direction, grid)
             IN  IF ~IsOk(found) THEN Panic
                 ELSE can_displace_all(Val(found), 1, direction, grid)

\* `grid[addr] = tile`
PutTile(grid, addr, tile) == [grid EXCEPT ![addr[2] + 1][addr[1] + 1] = tile]

\* displace_tile: Ok(the grid afterwards) or the panic; displace_each is its
\* loop over the displaced tiles from the i-th on
RECURSIVE displace_tile(_, _, _)
RECURSIVE displace_each(_, _, _, _)
displace_each(list, i, direction, grid) ==
    IF i > Len(list) THEN Ok(grid)
    ELSE LET pushed == displace_tile(list[i], direction, grid)
             asdf == checked_add_wide(list[i], into_GridDelta(opposite(direction)))
         IN  IF ~IsOk(pushed) THEN Panic
             ELSE IF ~IsSome(asdf) THEN displace_each(list, i + 1, direction, Val(pushed))
             ELSE IF ~IsOk(index(Val(pushed), asdf[1]))
                        \/ ~IsOk(index_mut(Val(pushed), list[i]))
             THEN Panic
             ELSE displace_each(list, i + 1, direction,
                    PutTile(PutTile(Val(pushed), list[i], Val(index(Val(pushed), asdf[1]))),
                            asdf[1], "Empty"))

displace_tile(addr, direction, grid) ==
    LET this_tile == index(grid, addr)
    IN  IF ~IsOk(this_tile) THEN Panic
        ELSE IF Val(this_tile) = "Wall" THEN Panic
        ELSE IF Val(this_tile) = "Empty" THEN Ok(grid)
        ELSE LET found == find_displaced_when_pushed(addr, direction, grid)
             IN  IF ~IsOk(found) THEN Panic
                 ELSE displace_each(Val(found), 1, direction, grid)

\* the rows of a warehouse with the given floor inside a ring of walls
Walled(floor) ==
    LET w == Len(floor[1]) + 2
        h == Len(floor) + 2
    IN  [y \in 1 .. h |-> [x \in 1 .. w |->
            IF y \in {1, h} \/ x \in {1, w} THEN "Wall" ELSE floor[y - 1][x - 1]]]

\* the floors of at most MaxFloor tiles with one robot
SmallFloors ==
    UNION {{f \in [1 .. d[2] -> [1 .. d[1] -> {"Empty", "Box", "Wall", "Robot"}]] :
                Cardinality({a \in (1 .. d[1]) \X (1 .. d[2]) : f[a[2]][a[1]] = "Robot"}) = 1} :
            d \in {e \in (1 .. MaxFloor) \X (1 .. MaxFloor) : e[1] * e[2] <= MaxFloor}}

\* a floor of four boxes from which, widened, the robot can build a pyramid:
\* a push West of the lowest box sets it under the two boxes above it
PyramidFloor ==
    << <<"Empty", "Empty", "Empty">>,
       <<"Empty", "Box", "Empty">>,
       <<"Box", "Box", "Empty">>,
       <<"Empty", "Box", "Robot">>,
       <<"Empty", "Empty", "Empty">> >>

\* the grids run() parses
ParsedWarehouses == {Walled(f) : f \in SmallFloors \cup {PyramidFloor}}

\* the position of the first Robot of the last row that holds one
RobotOf(g) ==
    LET ys == {y \in DOMAIN g : \E x \in DOMAIN g[y] : g[y][x] = "Robot"}
        y == CHOOSE v \in ys : \A u \in ys : u <= v
        x == MinOf({v \in DOMAIN g[y] : g[y][v] = "Robot"})
    IN  <<x - 1, y - 1>>

\* the grid of part 2: every row with each tile fattened
Widened(g) ==
    [y \in DOMAIN g |-> [x \in 1 .. 2 * Len(g[y]) |->
        fatten(g[y][(x + 1) \div 2])[2 - (x % 2)]]]

\* the entry of run_simulation(), for part 1 or for part 2
InitWarehouse ==
    /\ IdleButWarehouse
    /\ \E g \in ParsedWarehouses :
        \/ /\ wh_input = g
           /\ robot_pos = RobotOf(g)
        \/ /\ wh_input = Widened(g)
           /\ robot_pos = <<RobotOf(g)[1] * 2, RobotOf(g)[2]>>
    /\ wh_grid = wh_input
    /\ wh_moves = 0
    /\ wh_direction = None
    /\ wstate = "running"

\* one pass of run_simulation()'s loop, for any next instruction
WhMove ==
    /\ wstate = "running"
    /\ wh_moves < MaxMoves
    /\ \E direction \in Cardinal :
        LET can == can_displace_tile(robot_pos, direction, wh_grid)
            moved == displace_tile(robot_pos, direction, wh_grid)
            stepped == checked_add_wide(robot_pos, into_GridDelta(direction))
        IN  /\ wh_direction' = Some(direction)
            /\ IF ~IsOk(can) THEN
                    /\ wstate' = "panicked"
                    /\ UNCHANGED <<wh_grid, robot_pos>>
               ELSE IF ~Val(can) THEN
                    UNCHANGED <<wh_grid, robot_pos, wstate>>
               ELSE IF ~IsOk(moved) \/ ~IsSome(stepped) THEN
                    /\ wstate' = "panicked"
                    /\ UNCHANGED <<wh_grid, robot_pos>>
               ELSE /\ wh_grid' = Val(moved)
                    /\ robot_pos' = stepped[1]
                    /\ UNCHANGED wstate
    /\ wh_moves' = wh_moves + 1
    /\ UNCHANGED <<wh_input, nonWarehouseVars>>

\* the instructions are exhausted and run_simulation() returns the grid
WhReturn ==
    /\ wstate = "running"
    /\ wstate' = "done"
    /\ UNCHANGED <<wh_input, wh_grid, robot_pos, wh_moves, wh_direction,
                   nonWarehouseVars>>

NextWarehouse ==
    \/ WhMove
    \/ WhReturn

SpecWarehouse == InitWarehouse /\ [][NextWarehouse]_vars

-----------------------------------------------------------------------------
\* Claims about puzzle15.rs

\* the addresses of g that hold the tile t
Holding(g, t) == {a \in AddressesOf(g) : TileAt(g, a) = t}

\* the addresses of the boxes of g: a wide box counts at its left half
BoxesOf(g) == Holding(g, "Box") \cup Holding(g, "BoxLeft")

\* the instruction of this step found the robot unable to move
Clunk ==
    /\ wstate = "running"
    /\ wh_moves' = wh_moves + 1
    /\ can_displace_tile(robot_pos, wh_direction'[1], wh_grid) = Ok(FALSE)

\* C26, the states: the walls are where they were, there are as many boxes as
\* there were, the one Robot tile is at robot_pos, and nothing has panicked.
C26_WarehouseInv ==
    /\ wstate # "panicked"
    /\ Holding(wh_grid, "Wall") = Holding(wh_input, "Wall")
    /\ Cardinality(BoxesOf(wh_grid)) = Cardinality(BoxesOf(wh_input))
    /\ Holding(wh_grid, "Robot") = {robot_pos}

\* C26: in a warehouse enclosed by walls, after any sequence of instructions
\* the walls are unchanged, the number of boxes is unchanged, there is exactly
\* one Robot tile and it is at robot_pos, and no push panics; an instruction
\* for which can_displace_tile is false changes neither the grid nor
\* robot_pos.
C26_Warehouse ==
    /\ []C26_WarehouseInv
    /\ [][Clunk => (wh_grid' = wh_grid /\ robot_pos' = robot_pos)]_vars

\* the robot has pushed a box and has since been stopped by a wall or a box
C26_Witness ==
    /\ wstate = "running"
    /\ BoxesOf(wh_grid) # BoxesOf(wh_input)
    /\ IsSome(wh_direction)
    /\ can_displace_tile(robot_pos, wh_direction[1], wh_grid) = Ok(FALSE)
    /\ TileAt(wh_grid, Toward(robot_pos, wh_direction[1])) \in {"Box", "BoxLeft", "BoxRight"}

\* the grid is a widened one
IsWide == Holding(wh_input, "Box") = {}

\* every half of a wide box of g stands next to its other half
Paired(g) ==
    /\ \A a \in Holding(g, "BoxLeft") :
        /\ Toward(a, "East") \in AddressesOf(g)
        /\ TileAt(g, Toward(a, "East")) = "BoxRight"
    /\ \A a \in Holding(g, "BoxRight") :
        /\ Toward(a, "West") \in AddressesOf(g)
        /\ TileAt(g, Toward(a, "West")) = "BoxLeft"

\* the boxes at `after` are the boxes at `before`, some of them moved one cell
\* in direction d and the others where they were
MovedByOne(before, after, d) ==
    /\ Cardinality(after) = Cardinality(before)
    /\ \E M \in SUBSET before : after = (before \ M) \cup {Toward(b, d) : b \in M}

\* C27: in the widened warehouse, after every instruction each BoxLeft has a
\* BoxRight immediately East of it and each BoxRight a BoxLeft immediately
\* West of it, also when a vertical push moves wide boxes that overlap in a
\* pyramid and share a box further along; an instruction leaves every box
\* where it was or one cell further in its direction, and the number of boxes
\* the same.
C27_WideBoxes ==
    /\ [](IsWide => Paired(wh_grid))
    /\ [][(IsWide /\ wh_moves' = wh_moves + 1) =>
            MovedByOne(Holding(wh_grid, "BoxLeft"), Holding(wh_grid', "BoxLeft"),
                       wh_direction'[1])]_vars

\* a vertical push has just moved the pyramid: the two boxes side by side, the
\* box beyond them that both push and the box behind them that pushes both,
\* with the robot behind that one; the box beyond is in a row where the input
\* had no box
C27_Witness ==
    /\ IsWide
    /\ wstate = "running"
    /\ IsSome(wh_direction)
    /\ wh_direction[1] \in {"North", "South"}
    /\ \E a \in Holding(wh_grid, "BoxLeft") :
        LET pyramid == {a, <<a[1] + 2, a[2]>>, <<a[1] + 1, a[2] + 1>>,
                        <<a[1] + 1, a[2] - 1>>}
            behind == Toward(Toward(a, opposite(wh_direction[1])),
                             opposite(wh_direction[1]))
        IN  /\ pyramid \subseteq Holding(wh_grid, "BoxLeft")
            /\ \A b \in Holding(wh_input, "BoxLeft") :
                    b[2] # Toward(a, wh_direction[1])[2]
            /\ robot_pos \in {<<a[1] + 1, behind[2]>>, <<a[1] + 2, behind[2]>>}

-----------------------------------------------------------------------------
\* puzzle18.rs: bytes fall into the memory space until the exit is cut off
\*
\* astar is a function of the pathfinding crate: it returns a path of least
\* cost from the start to a node for which the success test holds, built from
\* the successors the closure yields, or None when there is none. Which of
\* several paths of least cost it returns is not fixed by this repository, so
\* find_path may return any of them.

\* grid_size: 7 for the example and 71 otherwise, scaled down
GridSize == 3

\* part1_length: 12 for the example and 1024 otherwise, scaled down
Part1Length == 1

\* the largest number of bytes of second_batch
MaxBytes == 3

ByteStart == <<0, 0>>
ByteGoal == <<GridSize - 1, GridSize - 1>>

\* the addresses a byte of the input falls on
ByteAddresses == (0 .. GridSize - 1) \X (0 .. GridSize - 1)

\* the successors closure of find_path
successors(here, obstacles, grid_size) ==
    {n \in {checked_add(here, into_GridDelta(ALL[i]))[1] :
                i \in {j \in DOMAIN ALL : IsSome(checked_add(here, into_GridDelta(ALL[j])))}} :
        /\ n[1] < grid_size /\ n[2] < grid_size
        /\ n \notin obstacles}

\* the nodes astar reaches from the nodes of `reached` and has not yet
Frontier(reached, obstacles, grid_size) ==
    UNION {successors(n, obstacles, grid_size) : n \in reached} \ reached

\* the paths of least cost from start to goal that astar may return: the
\* paths of k steps from start, extended until one ends at the goal
RECURSIVE LeastPaths(_, _, _, _, _)
LeastPaths(paths, reached, goal, obstacles, grid_size) ==
    LET arrived == {p \in paths : p[Len(p)] = goal}
        new == Frontier(reached, obstacles, grid_size)
    IN  IF arrived # {} THEN arrived
        ELSE IF new = {} THEN {}
        ELSE LeastPaths(
                UNION {{Append(p, n) : n \in successors(p[Len(p)], obstacles, grid_size) \cap new} :
                        p \in paths},
                reached \cup new, goal, obstacles, grid_size)

\* find_path: the results it may return, each Some(<<path, cost>>), or {None}
find_path(start, goal, obstacles, grid_size) ==
    LET least == LeastPaths({<<start>>}, {start}, goal, obstacles, grid_size)
    IN  IF least = {} THEN {None}
        ELSE {Some(<<p, Len(p) - 1>>) : p \in least}

\* determine_cardinal
determine_cardinal(from, to) ==
    IF from[1] > to[1] THEN Some("West")
    ELSE IF from[1] < to[1] THEN Some("East")
    ELSE IF from[2] > to[2] THEN Some("North")
    ELSE IF from[2] < to[2] THEN Some("South")
    ELSE None

\* render_path: the HashMap as a function from its keys
render_path(path) ==
    LET dir(i) == determine_cardinal(path[i - 1], path[i])
        keys == UNION {{path[i - 1], path[i]} : i \in {j \in 2 .. Len(path) : IsSome(dir(j))}}
        leaving(a) == {dir(i)[1] : i \in {j \in 2 .. Len(path) :
                                           IsSome(dir(j)) /\ path[j - 1] = a}}
        entering(a) == {opposite(dir(i)[1]) : i \in {j \in 2 .. Len(path) :
                                                      IsSome(dir(j)) /\ path[j] = a}}
    IN  [a \in keys |->
            [c \in Cardinal |-> c \in leaving(a) \cup entering(a)]]

\* path.contains_key
contains_key(path, addr) == addr \in DOMAIN path

\* run() after the input is read and split: the first batch has fallen
InitBytes ==
    /\ IdleButBytes
    /\ \E first_batch \in [1 .. Part1Length -> ByteAddresses] :
        fallen_bytes = {first_batch[i] : i \in DOMAIN first_batch}
    /\ found_path = <<>>
    /\ current_path = None
    /\ next_obstacle = None
    /\ bytes_taken = 0
    /\ bstate = "part1"

\* part 1: the first find_path; its failure ends run() with an error
BytePart1 ==
    /\ bstate = "part1"
    /\ \E r \in find_path(ByteStart, ByteGoal, fallen_bytes, GridSize) :
        IF IsSome(r)
        THEN /\ found_path' = r[1][1]
             /\ current_path' = Some(<<render_path(r[1][1]), r[1][2]>>)
             /\ bstate' = "falling"
        ELSE /\ bstate' = "failed"
             /\ UNCHANGED <<found_path, current_path>>
    /\ UNCHANGED <<fallen_bytes, next_obstacle, bytes_taken, nonBytesVars>>

\* one pass of the loop of part 2 with the next byte of second_batch
ByteFalls ==
    /\ bstate = "falling"
    /\ bytes_taken < MaxBytes
    /\ \E byte \in ByteAddresses :
        /\ next_obstacle' = Some(byte)
        /\ fallen_bytes' = fallen_bytes \cup {byte}
        /\ IF contains_key(current_path[1][1], byte)
           THEN \E r \in find_path(ByteStart, ByteGoal, fallen_bytes', GridSize) :
                    IF IsSome(r)
                    THEN /\ found_path' = r[1][1]
                         /\ current_path' = Some(<<render_path(r[1][1]), r[1][2]>>)
                         /\ UNCHANGED bstate
                    ELSE /\ bstate' = "blocked"
                         /\ UNCHANGED <<found_path, current_path>>
           ELSE UNCHANGED <<found_path, current_path, bstate>>
    /\ bytes_taken' = bytes_taken + 1
    /\ UNCHANGED nonBytesVars

\* second_batch is exhausted and no final blocker was found
BytesEnd ==
    /\ bstate = "falling"
    /\ bstate' = "done"
    /\ UNCHANGED <<fallen_bytes, found_path, current_path, next_obstacle,
                   bytes_taken, nonBytesVars>>

NextBytes ==
    \/ BytePart1
    \/ ByteFalls
    \/ BytesEnd

SpecBytes == InitBytes /\ [][NextBytes]_vars

\* ---- claims about puzzle18 ----

\* the addresses free of fallen bytes that are connected to those of `reached`
RECURSIVE FreeFrom(_, _)
FreeFrom(reached, fallen) ==
    LET more == {a \in ByteAddresses \ (fallen \cup reached) :
                    \E r \in reached : Adjacent(a, r)}
    IN  IF more = {} THEN reached ELSE FreeFrom(reached \cup more, fallen)

\* a path from the start to the goal exists that holds no fallen byte
ExitReachable(fallen) ==
    /\ ByteStart \notin fallen
    /\ ByteGoal \in FreeFrom({ByteStart}, fallen)

\* the remembered path is a path from the start to the goal, step by step,
\* and the rendered map holds exactly its addresses
RememberedPathValid ==
    /\ found_path[1] = ByteStart
    /\ found_path[Len(found_path)] = ByteGoal
    /\ \A i \in 2 .. Len(found_path) : Adjacent(found_path[i - 1], found_path[i])
    /\ DOMAIN current_path[1][1] = {found_path[i] : i \in DOMAIN found_path}
    /\ current_path[1][2] = Len(found_path) - 1

\* C28 (as stated): the reported final blocker is the first byte after whose
\* insertion no path from the start to the goal exists, and before that, after
\* each byte the loop has processed, the remembered path is a path from the
\* start to the goal that holds no fallen byte.
C28_Original ==
    /\ (bstate = "blocked") =>
            /\ ~ExitReachable(fallen_bytes)
            /\ ExitReachable(fallen_bytes \ {next_obstacle[1]})
    /\ (bstate = "falling" /\ IsSome(next_obstacle)) =>
            /\ RememberedPathValid
            /\ DOMAIN current_path[1][1] \cap fallen_bytes = {}

\* C28: the statement holds as long as no byte has fallen on the start
\* (find_path never tests the start against the obstacles)
C28_AwayFromStart ==
    (ByteStart \notin fallen_bytes) => C28_Original

\* C28: a new path is searched only when the new byte lands on the remembered
\* path: any other byte leaves the remembered path as it was
C28_SearchOnlyOnHit ==
    (bstate = "falling" /\ bstate' # "done"
        /\ ~contains_key(current_path[1][1], next_obstacle'[1]))
    => (current_path' = current_path /\ found_path' = found_path /\ bstate' = "falling")

\* C28 witness: a byte of the second batch fell on the start, the search ran
\* and the loop goes on with a path through that byte
C28_Witness ==
    /\ bstate = "falling"
    /\ next_obstacle = Some(ByteStart)
    /\ bytes_taken = 1
    /\ ByteStart \in DOMAIN current_path[1][1]
    /\ ByteStart \in fallen_bytes

-----------------------------------------------------------------------------
\* puzzle05.rs: page ordering rules; fix_order sorts an update by them

\* the page numbers of the input are 1 .. MaxPage
MaxPage == 3

\* the largest number of pages of an update
MaxUpdateLen == 3

Pages == 1 .. MaxPage

\* OrderingRules::new: vec is a set of <<prefix, suffix>>; the keys of the
\* HashMap are the prefixes that have a rule
OrderingRules_new(vec) ==
    [prefix \in {r[1] : r \in vec} |-> {r[2] : r \in {q \in vec : q[1] = prefix}}]

\* OrderingRules::has_rule
has_rule(self, prefix, suffix) ==
    IF prefix \notin DOMAIN self THEN FALSE
    ELSE suffix \in self[prefix]

\* is_legal with the rule required
is_legal_by_rule(self, prefix, suffix) ==
    has_rule(self, prefix, suffix)

\* OrderingRules::is_legal
is_legal(self, prefix, suffix) ==
    has_rule(self, prefix, suffix) \/ ~has_rule(self, suffix, prefix)

\* classify
classify(update, rules) ==
    LET violating(k) ==
            \E i \in 1 .. Len(update) : \E j \in (i + 1) .. Len(update) :
                /\ k \in {i, j}
                /\ ~is_legal(rules, update[i], update[j])
        classified_pages ==
            [k \in 1 .. Len(update) |-> [num |-> update[k], is_violation |-> violating(k)]]
    IN  [pages |-> classified_pages,
         is_valid |-> \A k \in 1 .. Len(update) : ~classified_pages[k].is_violation,
         was_fixed |-> FALSE]

\* the rules "a|b" for a < b, a strict total order of the pages
InOrder == {r \in Pages \X Pages : r[1] < r[2]}

\* the sets of rules of the input: a strict total order of the pages, one with
\* a rule missing, one with a rule turned round (which closes a cycle when
\* the pages of the rule are not neighbours in the order)
RuleSets ==
    {InOrder}
    \cup {InOrder \ {r} : r \in InOrder}
    \cup {(InOrder \ {r}) \cup {<<r[2], r[1]>>} : r \in InOrder}

\* the updates of the input: the pages in any order, repeated or not
Updates == UNION {[1 .. n -> Pages] : n \in 0 .. MaxUpdateLen}

\* fix_order is entered: fixed_pages is the clone of the update
InitFixOrder ==
    /\ IdleButFixorder
    /\ \E vec \in RuleSets : by_start = OrderingRules_new(vec)
    /\ fix_update \in Updates
    /\ fixed_pages = fix_update
    /\ fix_i = 1
    /\ fix_j = 0
    /\ did_swap = FALSE
    /\ reclassified = None
    /\ fix_pc = "for_i"

\* the head of `for i in 0..fixed_pages.len()`; past the end fix_order
\* returns and run() classifies the result
FixForI ==
    /\ fix_pc = "for_i"
    /\ IF fix_i <= Len(fixed_pages)
       THEN /\ did_swap' = TRUE
            /\ fix_pc' = "while"
            /\ UNCHANGED reclassified
       ELSE /\ reclassified' = Some([classify(fixed_pages, by_start) EXCEPT !.was_fixed = TRUE])
            /\ fix_pc' = "returned"
            /\ UNCHANGED did_swap
    /\ UNCHANGED <<by_start, fix_update, fixed_pages, fix_i, fix_j, nonFixorderVars>>

\* the head of `while did_swap`
FixWhile ==
    /\ fix_pc = "while"
    /\ IF did_swap
       THEN /\ did_swap' = FALSE
            /\ fix_j' = fix_i + 1
            /\ fix_pc' = "for_suffix"
            /\ UNCHANGED fix_i
       ELSE /\ fix_i' = fix_i + 1
            /\ fix_pc' = "for_i"
            /\ UNCHANGED <<did_swap, fix_j>>
    /\ UNCHANGED <<by_start, fix_update, fixed_pages, reclassified, nonFixorderVars>>

\* one pass of `for suffix in to_be_fixed.iter_mut()`, or its end
FixForSuffix ==
    /\ fix_pc = "for_suffix"
    /\ IF fix_j <= Len(fixed_pages)
       THEN /\ IF ~is_legal(by_start, fixed_pages[fix_i], fixed_pages[fix_j])
               THEN /\ fixed_pages' = [fixed_pages EXCEPT ![fix_i] = fixed_pages[fix_j],
                                                          ![fix_j] = fixed_pages[fix_i]]
                    /\ did_swap' = TRUE
               ELSE UNCHANGED <<fixed_pages, did_swap>>
            /\ fix_j' = fix_j + 1
            /\ UNCHANGED fix_pc
       ELSE /\ fix_pc' = "while"
            /\ UNCHANGED <<fixed_pages, did_swap, fix_j>>
    /\ UNCHANGED <<by_start, fix_update, fix_i, reclassified, nonFixorderVars>>

NextFixOrder ==
    \/ FixForI
    \/ FixWhile
    \/ FixForSuffix

\* fix_order is sequential code: a step that can be taken is taken
SpecFixOrder == InitFixOrder /\ [][NextFixOrder]_vars /\ WF_vars(NextFixOrder)

\* ---- claims about puzzle05 ----

\* the pages of the update are ordered by the rules pairwise, and the rules
\* are a strict total order on them
PairwiseOrdered ==
    LET pages == {fix_update[k] : k \in DOMAIN fix_update}
    IN  /\ \A a \in pages : ~has_rule(by_start, a, a)
        /\ \A a \in pages : \A b \in pages \ {a} :
                has_rule(by_start, a, b) # has_rule(by_start, b, a)
        /\ \A a \in pages : \A b \in pages : \A c \in pages :
                (has_rule(by_start, a, b) /\ has_rule(by_start, b, c))
                    => has_rule(by_start, a, c)

\* how often page p is in the update u
Occurrences(u, p) == Cardinality({k \in DOMAIN u : u[k] = p})

\* fix_order has returned a permutation of the update that classify finds valid
ReturnedValid ==
    /\ fix_pc = "returned"
    /\ \A p \in Pages : Occurrences(fixed_pages, p) = Occurrences(fix_update, p)
    /\ Len(fixed_pages) = Len(fix_update)
    /\ reclassified[1].is_valid
    /\ \A i \in DOMAIN fixed_pages : \A j \in DOMAIN fixed_pages :
            i < j => is_legal(by_start, fixed_pages[i], fixed_pages[j])

\* C29: for an update whose pages the rules order pairwise as a strict total
\* order, fix_order terminates, and what it returns is a permutation of the
\* update that classify reports as valid.
C29_FixOrder ==
    /\ [](PairwiseOrdered /\ fix_pc = "returned" => ReturnedValid)
    /\ (PairwiseOrdered ~> ReturnedValid)

\* C29 witness: an update of three pages that was not in order has been
\* returned in order
C29_Witness ==
    /\ PairwiseOrdered
    /\ ReturnedValid
    /\ Len(fix_update) >= 3
    /\ fixed_pages # fix_update
    /\ ~classify(fix_update, by_start).is_valid

-----------------------------------------------------------------------------
\* puzzle09.rs: a disk map of file lengths and gaps; defrag moves blocks from
\* the back of the disk into the gaps

\* the largest digit of the input (9 in the code, scaled down)
MaxDigit == 2

\* the largest number of digits of the input
MaxDigits == 5

\* Segment
Segment(id, length, gap) == [id |-> id, length |-> length, gap |-> gap]

\* parse_input: the digits pair by pair, the gap of an odd last digit is 0;
\* ids count from 0
parse_input(digits) ==
    [k \in 1 .. ((Len(digits) + 1) \div 2) |->
        Segment(k - 1, digits[2 * k - 1],
                IF 2 * k <= Len(digits) THEN digits[2 * k] ELSE 0)]

\* what fill_gap returns to the back when it keeps the segment whole
returned_whole(segment, gap) == segment

\* what fill_gap returns to the back of the unformatted region after a slice
\* of `gap` blocks was taken
returned_rest(segment, gap) == [segment EXCEPT !.length = segment.length - gap]

\* the inputs: every sequence of at most MaxDigits digits
DiskInputs == UNION {[1 .. n -> 0 .. MaxDigit] : n \in 0 .. MaxDigits}

\* run() after parse_input: defrag is entered
InitDisk ==
    /\ IdleButDisk
    /\ disk_input \in DiskInputs
    /\ formatted = <<>>
    /\ unformatted = parse_input(disk_input)
    /\ gap_left = 0
    /\ dstate = "defrag"

\* one pass of the loop of defrag up to its call of fill_gap, or the end of
\* the loop
DefragPop ==
    /\ dstate = "defrag"
    /\ IF unformatted # <<>>
       THEN LET segment == Head(unformatted)
            IN  /\ unformatted' = Tail(unformatted)
                /\ formatted' = Append(formatted, [segment EXCEPT !.gap = 0])
                /\ gap_left' = segment.gap
                /\ dstate' = "fill_gap"
       ELSE /\ dstate' = "done"
            /\ UNCHANGED <<formatted, unformatted, gap_left>>
    /\ UNCHANGED <<disk_input, nonDiskVars>>

\* one call of fill_gap up to its recursive call or its return
FillGap ==
    /\ dstate = "fill_gap"
    /\ IF gap_left > 0 /\ unformatted # <<>>
       THEN LET segment == unformatted[Len(unformatted)]
                popped == SubSeq(unformatted, 1, Len(unformatted) - 1)
                length == segment.length
            IN  IF length <= gap_left
                THEN /\ formatted' = Append(formatted, [segment EXCEPT !.gap = 0])
                     /\ unformatted' = popped
                     /\ gap_left' = gap_left - length
                     /\ UNCHANGED dstate
                ELSE /\ formatted' = Append(formatted, Segment(segment.id, gap_left, 0))
                     /\ unformatted' = Append(popped, returned_rest(segment, gap_left))
                     /\ dstate' = "defrag"
                     /\ UNCHANGED gap_left
       ELSE /\ dstate' = "defrag"
            /\ UNCHANGED <<formatted, unformatted, gap_left>>
    /\ UNCHANGED <<disk_input, nonDiskVars>>

NextDisk ==
    \/ DefragPop
    \/ FillGap

\* defrag is sequential code: a step that can be taken is taken
SpecDisk == InitDisk /\ [][NextDisk]_vars /\ WF_vars(NextDisk)

\* ---- claims about puzzle09 ----

\* the sum of the lengths of the segments of `segments` whose id is in `ids`
RECURSIVE LengthOf(_, _)
LengthOf(segments, ids) ==
    IF segments = <<>> THEN 0
    ELSE (IF Head(segments).id \in ids THEN Head(segments).length ELSE 0)
         + LengthOf(Tail(segments), ids)

FileIds == {s.id : s \in {parse_input(disk_input)[k] : k \in DOMAIN parse_input(disk_input)}}

\* every file has as many blocks in formatted and unformatted as in the input
BlocksConserved ==
    \A id \in FileIds :
        LengthOf(formatted, {id}) + LengthOf(unformatted, {id})
            = LengthOf(parse_input(disk_input), {id})

\* no segment of a file that is not in the input
NoOtherFiles ==
    \A k \in DOMAIN formatted : formatted[k].id \in FileIds

\* defrag has ended: nothing is unformatted, no formatted segment has a gap,
\* and formatted is as long as the files of the input together
Defragmented ==
    /\ dstate = "done"
    /\ unformatted = <<>>
    /\ \A k \in DOMAIN formatted : formatted[k].gap = 0
    /\ LengthOf(formatted, FileIds) = LengthOf(parse_input(disk_input), FileIds)

\* C30: defrag terminates with the unformatted list empty; after each step
\* every file has as many blocks in formatted plus unformatted as it had in
\* the input; at the end every formatted segment has gap 0 and formatted is
\* as long as all the files of the input together.
C30_Defrag ==
    /\ [](BlocksConserved /\ NoOtherFiles)
    /\ [](dstate = "done" => Defragmented)
    /\ <>Defragmented

\* C30 witness: defrag has ended for three files with gaps, one of them cut
\* into two slices, one slice in a gap and the rest further back
C30_Witness ==
    /\ Defragmented
    /\ Len(parse_input(disk_input)) >= 3
    /\ \E i \in DOMAIN formatted : \E j \in DOMAIN formatted :
            /\ i + 1 < j
            /\ formatted[i].id = formatted[j].id
            /\ formatted[i].length > 0 /\ formatted[j].length > 0

=============================================================================
